---- MODULE Spec2Model ----
(***************************************************************************)
(* ConnectionManager of the MSSQL MCP server (src/utils/connection.ts):    *)
(* startup configuration from the environment, connection-string           *)
(* resolution, connection-string parsing and the cache of live sessions.   *)
(*                                                                         *)
(* A JavaScript string is modelled as the sequence of its characters, so   *)
(* that toLowerCase, startsWith, substring, split, trim and includes are   *)
(* computed and not assumed.                                               *)
(***************************************************************************)
EXTENDS Integers, Sequences, FiniteSets, TLC

VARIABLES
  env,                      \* process.env: sequence of [key, value], in iteration order
  defaultConnectionString,  \* ConnectionManager.defaultConnectionString
  windowsCredentials,       \* ConnectionManager.windowsCredentials
  namedConnections,         \* ConnectionManager.namedConnections
  connections,              \* ConnectionManager.connections: key -> session id
  sessions,                 \* every tedious Connection created so far, by id
  calls,                    \* every getConnection call made so far, by id
  request,                  \* the executeQuery call in flight: its rows and its promise
  res                       \* outcome of the last synchronous operation applied

vars == <<env, defaultConnectionString, windowsCredentials, namedConnections,
          connections, sessions, calls, request, res>>

-----------------------------------------------------------------------------
(* Bounds of the model *)

\* Longest environment (number of variables) drawn at startup.
MaxEnvLen == 2

-----------------------------------------------------------------------------
(* JavaScript values *)

Undefined == [t |-> "undefined"]

Str(s) == [t |-> "string", v |-> s]

\* A function object inherited from Object.prototype (e.g. {}.constructor).
ProtoFn(name) == [t |-> "function", name |-> name]

\* A thrown Error with its message.
Error(msg) == [t |-> "error", message |-> msg]

\* JavaScript truthiness: undefined and "" are falsy, every other value used here is truthy.
Truthy(x) ==
  CASE x.t = "undefined" -> FALSE
    [] x.t = "string" -> x.v # <<>>
    [] OTHER -> TRUE

\* no executeQuery call has been made
NoRequest == [status |-> "none"]

Return(v) == [threw |-> FALSE, value |-> v]

Throw(e) == [threw |-> TRUE, value |-> e]

-----------------------------------------------------------------------------
(* String primitives *)

UpperChars == <<"A","B","C","D","E","F","G","H","I","J","K","L","M","N","O","P","Q","R","S","T","U","V","W","X","Y","Z">>

LowerChars == <<"a","b","c","d","e","f","g","h","i","j","k","l","m","n","o","p","q","r","s","t","u","v","w","x","y","z">>

WhiteSpace == {" ", "\t", "\n", "\r"}

ToLowerChar(c) ==
  IF \E i \in 1..Len(UpperChars) : UpperChars[i] = c
    THEN LowerChars[CHOOSE i \in 1..Len(UpperChars) : UpperChars[i] = c]
    ELSE c

\* String.prototype.toLowerCase
ToLowerCase(s) == [i \in 1..Len(s) |-> ToLowerChar(s[i])]

\* String.prototype.startsWith
StartsWith(s, p) == Len(s) >= Len(p) /\ SubSeq(s, 1, Len(p)) = p

\* String.prototype.substring(n)
Substring(s, n) == SubSeq(s, n + 1, Len(s))

\* String.prototype.includes
Includes(s, sub) ==
  \E i \in 0..(Len(s) - Len(sub)) : SubSeq(s, i + 1, i + Len(sub)) = sub

\* String.prototype.trim
Trim(s) ==
  LET keep == {i \in 1..Len(s) : s[i] \notin WhiteSpace}
  IN IF keep = {} THEN <<>>
     ELSE SubSeq(s, CHOOSE i \in keep : \A j \in keep : i <= j,
                    CHOOSE i \in keep : \A j \in keep : i >= j)

RECURSIVE SplitFrom(_, _, _)
SplitFrom(s, sep, cur) ==
  IF s = <<>> THEN <<cur>>
  ELSE IF Head(s) = sep THEN <<cur>> \o SplitFrom(Tail(s), sep, <<>>)
  ELSE SplitFrom(Tail(s), sep, Append(cur, Head(s)))

\* String.prototype.split with a one-character separator
Split(s, sep) == SplitFrom(s, sep, <<>>)

RECURSIVE Join(_, _)
\* Array.prototype.join
Join(parts, sep) ==
  IF parts = <<>> THEN <<>>
  ELSE IF Len(parts) = 1 THEN parts[1]
  ELSE parts[1] \o sep \o Join(Tail(parts), sep)

-----------------------------------------------------------------------------
(* Plain objects: own properties in insertion order, over Object.prototype *)

\* Property names every plain object inherits from Object.prototype.
ObjectPrototypeKeys ==
  { <<"c","o","n","s","t","r","u","c","t","o","r">>, <<"t","o","S","t","r","i","n","g">>, <<"v","a","l","u","e","O","f">>, <<"h","a","s","O","w","n","P","r","o","p","e","r","t","y">>,
    <<"i","s","P","r","o","t","o","t","y","p","e","O","f">>, <<"p","r","o","p","e","r","t","y","I","s","E","n","u","m","e","r","a","b","l","e">>, <<"t","o","L","o","c","a","l","e","S","t","r","i","n","g">>,
    <<"_","_","p","r","o","t","o","_","_">>, <<"_","_","d","e","f","i","n","e","G","e","t","t","e","r","_","_">>, <<"_","_","d","e","f","i","n","e","S","e","t","t","e","r","_","_">>,
    <<"_","_","l","o","o","k","u","p","G","e","t","t","e","r","_","_">>, <<"_","_","l","o","o","k","u","p","S","e","t","t","e","r","_","_">> }

EmptyObject == <<>>

\* Object.keys(obj)
ObjKeys(obj) == [i \in 1..Len(obj) |-> obj[i].k]

HasOwn(obj, name) == \E i \in 1..Len(obj) : obj[i].k = name

\* obj[name]: the own property, else the inherited one, else undefined
ObjGet(obj, name) ==
  IF HasOwn(obj, name)
    THEN obj[CHOOSE i \in 1..Len(obj) : obj[i].k = name].v
  ELSE IF name \in ObjectPrototypeKeys THEN ProtoFn(name)
  ELSE Undefined

\* obj[name] = value on a plain object. Assigning a string to __proto__ runs the
\* inherited setter, which ignores non-object values and creates no own property.
ObjSet(obj, name, value) ==
  IF name = <<"_","_","p","r","o","t","o","_","_">> /\ ~HasOwn(obj, name) THEN obj
  ELSE IF HasOwn(obj, name)
    THEN [i \in 1..Len(obj) |-> IF obj[i].k = name THEN [k |-> name, v |-> value] ELSE obj[i]]
  ELSE Append(obj, [k |-> name, v |-> value])

-----------------------------------------------------------------------------
(* process.env *)

\* process.env[name]
EnvGet(e, name) ==
  IF \E i \in 1..Len(e) : e[i].key = name
    THEN Str(e[CHOOSE i \in 1..Len(e) : e[i].key = name].value)
    ELSE Undefined

\* Connection strings used as values.
ConnX == <<"S","e","r","v","e","r","=","x">>

ConnY == <<"S","e","r","v","e","r","=","y",";","D","a","t","a","b","a","s","e","=","d">>

\* JSON texts used as values of the structured variables.
JsonConnectionsText == <<"{","\"","R","e","p","o","r","t","s","\"",":","\"","S","e","r","v","e","r","=","r","\"","}">>

JsonCredentialsText == <<"{","\"","u","s","e","r","n","a","m","e","\"",":","\"","j","u","\"",",","\"","p","a","s","s","w","o","r","d","\"",":","\"","j","p","\"",",","\"","d","o","m","a","i","n","\"",":","\"","J","D","\"","}">>

JsonConnectionsText2 == <<"{","\"","S","a","l","e","s","\"",":","\"","S","e","r","v","e","r","=","s","\"",",","\"","h","r","_","d","b","\"",":","\"","S","e","r","v","e","r","=","j","\"","}">>

JsonCredentialsText2 == <<"{","\"","u","s","e","r","n","a","m","e","\"",":","\"","k","u","\"","}">>

\* a text that is not JSON
BadJsonText == <<"{","b","a","d">>

\* the SyntaxError JSON.parse throws
JsonSyntaxError == Error(<<"U","n","e","x","p","e","c","t","e","d"," ","t","o","k","e","n">>)

\* JSON.parse on the texts of the model: the JSON documents above parse to
\* their objects; every other text of the model is not JSON and raises SyntaxError.
JsonParse(text) ==
  IF text = JsonConnectionsText
    THEN Return(<<[k |-> <<"R","e","p","o","r","t","s">>, v |-> Str(<<"S","e","r","v","e","r","=","r">>)]>>)
  ELSE IF text = JsonConnectionsText2
    THEN Return(<<[k |-> <<"S","a","l","e","s">>, v |-> Str(<<"S","e","r","v","e","r","=","s">>)],
                  [k |-> <<"h","r","_","d","b">>, v |-> Str(<<"S","e","r","v","e","r","=","j">>)]>>)
  ELSE IF text = JsonCredentialsText
    THEN Return(<<[k |-> <<"u","s","e","r","n","a","m","e">>, v |-> Str(<<"j","u">>)],
                  [k |-> <<"p","a","s","s","w","o","r","d">>, v |-> Str(<<"j","p">>)],
                  [k |-> <<"d","o","m","a","i","n">>, v |-> Str(<<"J","D">>)]>>)
  ELSE IF text = JsonCredentialsText2
    THEN Return(<<[k |-> <<"u","s","e","r","n","a","m","e">>, v |-> Str(<<"k","u">>)]>>)
  ELSE Throw(JsonSyntaxError)

-----------------------------------------------------------------------------
(* Startup: ConnectionManager.initializeFromEnvironment *)

\* const 'CONNECTION_' and the length passed to substring
ConnectionPrefix == <<"C","O","N","N","E","C","T","I","O","N","_">>

PrefixLen == 11

RECURSIVE ConnectionVars_keepCase(_, _)
\* faulty variant: the alias keeps the letter case of the variable name
ConnectionVars_keepCase(e, acc) ==
  IF e = <<>> THEN acc
  ELSE ConnectionVars_keepCase(Tail(e),
         IF StartsWith(Head(e).key, ConnectionPrefix)
           THEN ObjSet(acc, Substring(Head(e).key, PrefixLen), Str(Head(e).value))
           ELSE acc)

RECURSIVE ConnectionVars(_, _)
\* the loop over Object.entries(process.env) filling connectionVars
ConnectionVars(e, acc) ==
  IF e = <<>> THEN acc
  ELSE ConnectionVars(Tail(e),
         IF StartsWith(Head(e).key, ConnectionPrefix)
           THEN ObjSet(acc, ToLowerCase(Substring(Head(e).key, PrefixLen)), Str(Head(e).value))
           ELSE acc)

\* faulty variant: a text that fails to parse is stored as the setting
ParsedOrEmpty_keepText(blob) ==
  LET r == JsonParse(blob.v)
  IN IF r.threw THEN <<[k |-> <<"r","a","w">>, v |-> blob]>> ELSE r.value

\* faulty variant: the legacy variables fill the fields the WINDOWS_* variables leave out
IndividualCredentials_withLegacy(e, userVar, passVar, domainVar) ==
  LET pick(first, second) == IF Truthy(EnvGet(e, first)) THEN EnvGet(e, first) ELSE EnvGet(e, second)
      u == pick(userVar, <<"M","S","S","Q","L","_","U","S","E","R","N","A","M","E">>)
      p == pick(passVar, <<"M","S","S","Q","L","_","P","A","S","S","W","O","R","D">>)
      d == pick(domainVar, <<"M","S","S","Q","L","_","D","O","M","A","I","N">>)
  IN (IF Truthy(u) THEN <<[k |-> <<"u","s","e","r","n","a","m","e">>, v |-> u]>> ELSE <<>>)
       \o (IF Truthy(p) THEN <<[k |-> <<"p","a","s","s","w","o","r","d">>, v |-> p]>> ELSE <<>>)
       \o (IF Truthy(d) THEN <<[k |-> <<"d","o","m","a","i","n">>, v |-> d]>> ELSE <<>>)

\* the value JSON.parse(blob) leaves in the field, or the field's initial {} when it throws
ParsedOrEmpty(blob) ==
  LET r == JsonParse(blob.v) IN IF r.threw THEN EmptyObject ELSE r.value

\* faulty variant: the aliases of the connections blob are added to those of the
\* CONNECTION_* variables
LoadNamedConnections_merged(e) ==
  LET connectionVars == ConnectionVars(e, EmptyObject)
  IN IF Truthy(EnvGet(e, <<"c","o","n","n","e","c","t","i","o","n","s">>))
       THEN connectionVars \o
              SelectSeq(ParsedOrEmpty(EnvGet(e, <<"c","o","n","n","e","c","t","i","o","n","s">>)),
                        LAMBDA p : ~HasOwn(connectionVars, p.k))
     ELSE IF Truthy(EnvGet(e, <<"M","S","S","Q","L","_","C","O","N","N","E","C","T","I","O","N","S">>))
       THEN connectionVars \o
              SelectSeq(ParsedOrEmpty(EnvGet(e, <<"M","S","S","Q","L","_","C","O","N","N","E","C","T","I","O","N","S">>)),
                        LAMBDA p : ~HasOwn(connectionVars, p.k))
     ELSE connectionVars

LoadNamedConnections(e) ==
  LET connectionVars == ConnectionVars(e, EmptyObject)
  IN IF Len(ObjKeys(connectionVars)) > 0 THEN connectionVars
     ELSE IF Truthy(EnvGet(e, <<"c","o","n","n","e","c","t","i","o","n","s">>))
       THEN ParsedOrEmpty(EnvGet(e, <<"c","o","n","n","e","c","t","i","o","n","s">>))
     ELSE IF Truthy(EnvGet(e, <<"M","S","S","Q","L","_","C","O","N","N","E","C","T","I","O","N","S">>))
       THEN ParsedOrEmpty(EnvGet(e, <<"M","S","S","Q","L","_","C","O","N","N","E","C","T","I","O","N","S">>))
     ELSE EmptyObject

\* the three conditional assignments of one tier of individual variables
IndividualCredentials(e, userVar, passVar, domainVar) ==
  LET c1 == IF Truthy(EnvGet(e, userVar))
              THEN ObjSet(EmptyObject, <<"u","s","e","r","n","a","m","e">>, EnvGet(e, userVar)) ELSE EmptyObject
      c2 == IF Truthy(EnvGet(e, passVar))
              THEN ObjSet(c1, <<"p","a","s","s","w","o","r","d">>, EnvGet(e, passVar)) ELSE c1
  IN IF Truthy(EnvGet(e, domainVar))
       THEN ObjSet(c2, <<"d","o","m","a","i","n">>, EnvGet(e, domainVar)) ELSE c2

LoadWindowsCredentials(e) ==
  IF \/ Truthy(EnvGet(e, <<"W","I","N","D","O","W","S","_","U","S","E","R","N","A","M","E">>))
     \/ Truthy(EnvGet(e, <<"W","I","N","D","O","W","S","_","P","A","S","S","W","O","R","D">>))
     \/ Truthy(EnvGet(e, <<"W","I","N","D","O","W","S","_","D","O","M","A","I","N">>))
    THEN IndividualCredentials(e, <<"W","I","N","D","O","W","S","_","U","S","E","R","N","A","M","E">>, <<"W","I","N","D","O","W","S","_","P","A","S","S","W","O","R","D">>, <<"W","I","N","D","O","W","S","_","D","O","M","A","I","N">>)
  ELSE IF Truthy(EnvGet(e, <<"w","i","n","d","o","w","s","_","c","r","e","d","e","n","t","i","a","l","s">>))
    THEN ParsedOrEmpty(EnvGet(e, <<"w","i","n","d","o","w","s","_","c","r","e","d","e","n","t","i","a","l","s">>))
  ELSE IF Truthy(EnvGet(e, <<"M","S","S","Q","L","_","W","I","N","D","O","W","S","_","C","R","E","D","E","N","T","I","A","L","S">>))
    THEN ParsedOrEmpty(EnvGet(e, <<"M","S","S","Q","L","_","W","I","N","D","O","W","S","_","C","R","E","D","E","N","T","I","A","L","S">>))
  ELSE IndividualCredentials(e, <<"M","S","S","Q","L","_","U","S","E","R","N","A","M","E">>, <<"M","S","S","Q","L","_","P","A","S","S","W","O","R","D">>, <<"M","S","S","Q","L","_","D","O","M","A","I","N">>)

\* the manager's fields after new ConnectionManager() under environment e
Constructed(e) ==
  /\ env = e
  /\ defaultConnectionString = EnvGet(e, <<"M","S","S","Q","L","_","C","O","N","N","E","C","T","I","O","N","_","S","T","R","I","N","G">>)
  /\ windowsCredentials = LoadWindowsCredentials(e)
  /\ namedConnections = LoadNamedConnections(e)
  /\ connections = <<>>
  /\ sessions = <<>>
  /\ calls = <<>>
  /\ request = NoRequest

-----------------------------------------------------------------------------
(* Resolution: ConnectionManager.getConnectionString *)

NotFoundMessage(named, name) ==
  <<"N","a","m","e","d"," ","c","o","n","n","e","c","t","i","o","n"," ","'">> \o name \o <<"'"," ","n","o","t"," ","f","o","u","n","d","."," ","A","v","a","i","l","a","b","l","e"," ","c","o","n","n","e","c","t","i","o","n","s",":"," ">>
    \o Join(ObjKeys(named), <<","," ">>)

NoConnectionMessage ==
  <<"N","o"," ","c","o","n","n","e","c","t","i","o","n"," ","s","t","r","i","n","g"," ","p","r","o","v","i","d","e","d"," ","a","n","d"," ","n","o"," ","d","e","f","a","u","l","t"," ","c","o","n","n","e","c","t","i","o","n"," ","s","t","r","i","n","g"," ","c","o","n","f","i","g","u","r","e","d">>

\* faulty variant: the alias is looked up before the explicit string is considered
GetConnectionString_namedFirst(named, dflt, providedConnectionString, connectionName) ==
  IF Truthy(connectionName)
    THEN LET namedConnection == ObjGet(named, connectionName.v)
         IN IF ~Truthy(namedConnection)
              THEN Throw(Error(NotFoundMessage(named, connectionName.v)))
              ELSE Return(namedConnection)
  ELSE IF Truthy(providedConnectionString) THEN Return(providedConnectionString)
  ELSE IF Truthy(dflt) THEN Return(dflt)
  ELSE Throw(Error(NoConnectionMessage))

\* faulty variant: the default is returned without testing that one is configured
GetConnectionString_uncheckedDefault(named, dflt, providedConnectionString, connectionName) ==
  IF Truthy(providedConnectionString) THEN Return(providedConnectionString)
  ELSE IF Truthy(connectionName)
    THEN LET namedConnection == ObjGet(named, connectionName.v)
         IN IF ~Truthy(namedConnection)
              THEN Throw(Error(NotFoundMessage(named, connectionName.v)))
              ELSE Return(namedConnection)
  ELSE Return(dflt)

\* faulty variant: an alias that is not found falls back to the default
GetConnectionString_fallbackDefault(named, dflt, providedConnectionString, connectionName) ==
  IF Truthy(providedConnectionString) THEN Return(providedConnectionString)
  ELSE IF Truthy(connectionName) /\ Truthy(ObjGet(named, connectionName.v))
    THEN Return(ObjGet(named, connectionName.v))
  ELSE IF Truthy(dflt) THEN Return(dflt)
  ELSE Throw(Error(NoConnectionMessage))

GetConnectionString(named, dflt, providedConnectionString, connectionName) ==
  IF Truthy(providedConnectionString) THEN Return(providedConnectionString)
  ELSE IF Truthy(connectionName)
    THEN LET namedConnection == ObjGet(named, connectionName.v)
         IN IF ~Truthy(namedConnection)
              THEN Throw(Error(NotFoundMessage(named, connectionName.v)))
              ELSE Return(namedConnection)
  ELSE IF Truthy(dflt) THEN Return(dflt)
  ELSE Throw(Error(NoConnectionMessage))

\* the list_connections tool: the alias/string pairs and the default's status
ListConnections(named, dflt) ==
  [ namedConnections |-> [i \in 1..Len(ObjKeys(named)) |->
        [name |-> ObjKeys(named)[i], connectionString |-> ObjGet(named, ObjKeys(named)[i])]],
    defaultConnection |-> IF Truthy(dflt) THEN <<"A","v","a","i","l","a","b","l","e">> ELSE <<"N","o","t"," ","c","o","n","f","i","g","u","r","e","d">>,
    totalConnections |-> Len(ObjKeys(named)) ]

-----------------------------------------------------------------------------
(* Translation: ConnectionManager.parseConnectionString *)

\* delete obj[name]
ObjDelete(obj, name) == SelectSeq(obj, LAMBDA p : p.k # name)

\* the config object parseConnectionString starts from
DefaultConfig ==
  [ server |-> <<"l","o","c","a","l","h","o","s","t">>,
    options |-> [encrypt |-> TRUE, trustServerCertificate |-> TRUE,
                 enableArithAbort |-> TRUE, database |-> Undefined],
    authentication |-> [type |-> "default", options |-> EmptyObject] ]

\* connectionString.split(';').filter(part => part.trim())
ConnectionStringParts(connectionString) ==
  SelectSeq(Split(connectionString, ";"), LAMBDA part : Trim(part) # <<>>)

\* part.split('=').map(s => s.trim())
KeyValue(part) ==
  LET pieces == Split(part, "=") IN [i \in 1..Len(pieces) |-> Trim(pieces[i])]

IsTrueText(value) == ToLowerCase(value) = <<"t","r","u","e">>

\* case 'integrated security'
IntegratedSecurity(config, value, envCredentials) ==
  IF IsTrueText(value) \/ ToLowerCase(value) = <<"s","s","p","i">>
    THEN LET username == ObjGet(envCredentials, <<"u","s","e","r","n","a","m","e">>)
             password == ObjGet(envCredentials, <<"p","a","s","s","w","o","r","d">>)
             domain == ObjGet(envCredentials, <<"d","o","m","a","i","n">>)
             o0 == config.authentication.options
             o1 == IF Truthy(username) THEN ObjSet(o0, <<"u","s","e","r","N","a","m","e">>, username) ELSE o0
             o2 == IF Truthy(password) THEN ObjSet(o1, <<"p","a","s","s","w","o","r","d">>, password) ELSE o1
             o3 == IF Truthy(domain) THEN ObjSet(o2, <<"d","o","m","a","i","n">>, domain) ELSE o2
             o4 == IF ~Truthy(username) /\ ~Truthy(password)
                     THEN ObjDelete(ObjDelete(o3, <<"u","s","e","r","N","a","m","e">>), <<"p","a","s","s","w","o","r","d">>)
                     ELSE o3
         IN [config EXCEPT !.authentication = [type |-> "ntlm", options |-> o4]]
    ELSE config

\* faulty variant: the key is compared as written, without lowercasing
ApplyPart_caseSensitive(config, part, envCredentials) ==
  LET kv == KeyValue(part)
      key == kv[1]
      hasValue == Len(kv) >= 2 /\ kv[2] # <<>>
      value == kv[2]
      lowerKey == key
  IN IF key = <<>> \/ ~hasValue THEN config
     ELSE IF lowerKey \in {<<"s","e","r","v","e","r">>, <<"d","a","t","a"," ","s","o","u","r","c","e">>}
       THEN [config EXCEPT !.server = value]
     ELSE IF lowerKey \in {<<"d","a","t","a","b","a","s","e">>, <<"i","n","i","t","i","a","l"," ","c","a","t","a","l","o","g">>}
       THEN [config EXCEPT !.options.database = Str(value)]
     ELSE IF lowerKey \in {<<"u","s","e","r"," ","i","d">>, <<"u","i","d">>}
       THEN [config EXCEPT !.authentication.options = ObjSet(@, <<"u","s","e","r","N","a","m","e">>, Str(value))]
     ELSE IF lowerKey \in {<<"p","a","s","s","w","o","r","d">>, <<"p","w","d">>}
       THEN [config EXCEPT !.authentication.options = ObjSet(@, <<"p","a","s","s","w","o","r","d">>, Str(value))]
     ELSE IF lowerKey = <<"i","n","t","e","g","r","a","t","e","d"," ","s","e","c","u","r","i","t","y">>
       THEN IntegratedSecurity(config, value, envCredentials)
     ELSE IF lowerKey = <<"e","n","c","r","y","p","t">>
       THEN [config EXCEPT !.options.encrypt = IsTrueText(value)]
     ELSE IF lowerKey = <<"t","r","u","s","t","s","e","r","v","e","r","c","e","r","t","i","f","i","c","a","t","e">>
       THEN [config EXCEPT !.options.trustServerCertificate = IsTrueText(value)]
     ELSE config

\* the body of the loop over the parts: one key=value pair applied to the config
ApplyPart(config, part, envCredentials) ==
  LET kv == KeyValue(part)
      key == kv[1]
      hasValue == Len(kv) >= 2 /\ kv[2] # <<>>
      value == kv[2]
      lowerKey == ToLowerCase(key)
  IN IF key = <<>> \/ ~hasValue THEN config
     ELSE IF lowerKey \in {<<"s","e","r","v","e","r">>, <<"d","a","t","a"," ","s","o","u","r","c","e">>}
       THEN [config EXCEPT !.server = value]
     ELSE IF lowerKey \in {<<"d","a","t","a","b","a","s","e">>, <<"i","n","i","t","i","a","l"," ","c","a","t","a","l","o","g">>}
       THEN [config EXCEPT !.options.database = Str(value)]
     ELSE IF lowerKey \in {<<"u","s","e","r"," ","i","d">>, <<"u","i","d">>}
       THEN [config EXCEPT !.authentication.options = ObjSet(@, <<"u","s","e","r","N","a","m","e">>, Str(value))]
     ELSE IF lowerKey \in {<<"p","a","s","s","w","o","r","d">>, <<"p","w","d">>}
       THEN [config EXCEPT !.authentication.options = ObjSet(@, <<"p","a","s","s","w","o","r","d">>, Str(value))]
     ELSE IF lowerKey = <<"i","n","t","e","g","r","a","t","e","d"," ","s","e","c","u","r","i","t","y">>
       THEN IntegratedSecurity(config, value, envCredentials)
     ELSE IF lowerKey = <<"e","n","c","r","y","p","t">>
       THEN [config EXCEPT !.options.encrypt = IsTrueText(value)]
     ELSE IF lowerKey = <<"t","r","u","s","t","s","e","r","v","e","r","c","e","r","t","i","f","i","c","a","t","e">>
       THEN [config EXCEPT !.options.trustServerCertificate = IsTrueText(value)]
     ELSE config

RECURSIVE ApplyParts(_, _, _)
\* for (const part of parts)
ApplyParts(config, parts, envCredentials) ==
  IF parts = <<>> THEN config
  ELSE ApplyParts(ApplyPart(config, Head(parts), envCredentials), Tail(parts), envCredentials)

ParseConnectionString(connectionString, envCredentials) ==
  ApplyParts(DefaultConfig, ConnectionStringParts(connectionString), envCredentials)

-----------------------------------------------------------------------------
(* Inputs of the resolution model *)

\* variables the resolution model draws its environments from
ResolveEnvKeys ==
  { <<"C","O","N","N","E","C","T","I","O","N","_","H","R","_","D","B">>, <<"C","O","N","N","E","C","T","I","O","N","_">>, <<"M","S","S","Q","L","_","C","O","N","N","E","C","T","I","O","N","_","S","T","R","I","N","G">>, <<"c","o","n","n","e","c","t","i","o","n","s">> }

\* variables the startup model draws its environments from
LoadEnvKeys ==
  { <<"C","O","N","N","E","C","T","I","O","N","_","H","R","_","D","B">>, <<"C","O","N","N","E","C","T","I","O","N","_","h","r","_","d","b">>, <<"C","O","N","N","E","C","T","I","O","N","_">>, <<"C","O","N","N","E","C","T","I","O","N","_","_","_","P","R","O","T","O","_","_">>,
    <<"c","o","n","n","e","c","t","i","o","n","s">>, <<"M","S","S","Q","L","_","C","O","N","N","E","C","T","I","O","N","S">> }

EnvValues == { <<>>, ConnX, ConnY, JsonConnectionsText }

EnvEntries(keys) == [key : keys, value : EnvValues]

\* POSIX environments: variable names are case-sensitive and unique.
DistinctKeys(e) == \A i, j \in 1..Len(e) : i # j => e[i].key # e[j].key

EnvironmentsOfLen(keys, n) == {e \in [1..n -> EnvEntries(keys)] : DistinctKeys(e)}

\* values of the variables of the startup model
LoadEnvValues == { <<>>, ConnX, ConnY, JsonConnectionsText, JsonConnectionsText2 }

LoadEnvEntries == [key : LoadEnvKeys, value : LoadEnvValues]

EnvironmentsOver(entries, n) == {e \in [1..n -> entries] : DistinctKeys(e)}

ConnE == <<"S","e","r","v","e","r","=","e">>

ExplicitInputs == { Undefined, Str(<<>>), Str(ConnE) }

AliasInputs ==
  { Undefined, Str(<<>>), Str(<<"h","r","_","d","b">>), Str(<<"H","R","_","D","B">>),
    Str(<<"R","e","p","o","r","t","s">>), Str(<<"c","o","n","s","t","r","u","c","t","o","r">>), Str(<<"n","o","p","e">>) }

NoResult == [op |-> "none"]

\* a call that has been issued and not yet run
PendingResolve(explicit, alias) ==
  [op |-> "call", fn |-> "getConnectionString", explicit |-> explicit, alias |-> alias]

PendingList == [op |-> "call", fn |-> "list_connections"]

InitResolve ==
  /\ \E n \in 0..MaxEnvLen : \E e \in EnvironmentsOfLen(ResolveEnvKeys, n) : Constructed(e)
  /\ \E explicit \in ExplicitInputs, alias \in AliasInputs :
       res = PendingResolve(explicit, alias)

\* the call getConnectionString(explicit, alias) runs
Resolve ==
  /\ res.op = "call" /\ res.fn = "getConnectionString"
  /\ res' = [op |-> "getConnectionString", explicit |-> res.explicit, alias |-> res.alias,
             out |-> GetConnectionString(namedConnections, defaultConnectionString,
                                         res.explicit, res.alias)]
  /\ UNCHANGED <<env, defaultConnectionString, windowsCredentials, namedConnections,
                 connections, sessions, calls, request>>

NextResolve == Resolve

SpecResolve == InitResolve /\ [][NextResolve]_vars

-----------------------------------------------------------------------------
(* Inputs of the startup model: the manager is constructed under the
   environment and its named connections are listed *)

InitLoad ==
  /\ \E n \in 0..MaxEnvLen :
       \E e \in EnvironmentsOver(LoadEnvEntries, n) : Constructed(e)
  /\ res = PendingList

\* the list_connections tool runs
List ==
  /\ res.op = "call" /\ res.fn = "list_connections"
  /\ res' = [op |-> "list_connections",
             out |-> ListConnections(namedConnections, defaultConnectionString)]
  /\ UNCHANGED <<env, defaultConnectionString, windowsCredentials, namedConnections,
                 connections, sessions, calls, request>>

NextLoad == List

SpecLoad == InitLoad /\ [][NextLoad]_vars

-----------------------------------------------------------------------------
(* Claims about resolution, checked under SpecResolve, and about startup,
   checked under SpecLoad *)

Resolved == res.op = "getConnectionString"

\* the call carried no explicit string / no alias (undefined or empty)
NoExplicit == ~Truthy(res.explicit)

NoAlias == ~Truthy(res.alias)

DefaultConfigured == Truthy(defaultConnectionString)

\* C1: a call with a non-empty explicit string returns exactly that string and
\* raises nothing, whatever named connections, default and alias there are.
C1_ExplicitWins ==
  (Resolved /\ res.explicit.t = "string" /\ res.explicit.v # <<>>)
    => res.out = Return(res.explicit)

\* C1's case: explicit string given together with an unknown alias, while named
\* connections and a default are configured.
C1_Witness ==
  /\ Resolved /\ res.explicit = Str(ConnE)
  /\ res.alias = Str(<<"n","o","p","e">>) /\ ~HasOwn(namedConnections, res.alias.v)
  /\ Len(namedConnections) > 0 /\ DefaultConfigured
  /\ res.out = Return(Str(ConnE))

\* C2 as stated: with no explicit string, a (non-empty) alias that is a key of the map
\* resolves to the value stored under it, whatever that value is.
C2_KnownAliasReturnsStored ==
  (Resolved /\ NoExplicit /\ Truthy(res.alias) /\ HasOwn(namedConnections, res.alias.v))
    => res.out = Return(ObjGet(namedConnections, res.alias.v))

\* C3 as stated: with no explicit string, a (non-empty) alias that is not a key of
\* the map makes resolution fail, never falling back to the default, and the
\* message names every alias of the map.
C3_UnknownAliasFails ==
  (Resolved /\ NoExplicit /\ Truthy(res.alias) /\ ~HasOwn(namedConnections, res.alias.v))
    => /\ res.out.threw
       /\ \A i \in 1..Len(namedConnections) :
            Includes(res.out.value.message, namedConnections[i].k)

\* C4: with neither explicit string nor alias, the result is the configured
\* default, and without a configured default the call fails with the
\* 'no connection' error and returns nothing.
C4_DefaultOrError ==
  (Resolved /\ NoExplicit /\ NoAlias)
    => IF DefaultConfigured
         THEN res.out = Return(defaultConnectionString)
         ELSE res.out = Throw(Error(NoConnectionMessage))

\* C4's case: no arguments, named connections exist, and both outcomes: here the
\* default is configured and returned.
C4_Witness ==
  /\ Resolved /\ res.explicit = Undefined /\ res.alias = Undefined
  /\ Len(namedConnections) > 0
  /\ DefaultConfigured /\ res.out = Return(defaultConnectionString)

\* indexes of the CONNECTION_* variables of the environment
ConnectionVarIndexes == {i \in 1..Len(env) : StartsWith(env[i].key, ConnectionPrefix)}

\* the alias a CONNECTION_* variable stands for
AliasOfVar(i) == ToLowerCase(Substring(env[i].key, PrefixLen))

\* the alias/value pairs held by the named-connections map
NamedPairs == {<<namedConnections[i].k, namedConnections[i].v>> : i \in 1..Len(namedConnections)}

\* the alias/value pairs returned by list_connections
ListedPairs ==
  {<<res.out.namedConnections[i].name, res.out.namedConnections[i].connectionString>> :
     i \in 1..Len(res.out.namedConnections)}

\* C10 as stated: every CONNECTION_* variable yields a named connection under its
\* lowercased suffix holding the variable's raw value, and the listing returns
\* exactly these pairs.
C10_EveryVariableListed ==
  LET pairs == {<<AliasOfVar(i), Str(env[i].value)>> : i \in ConnectionVarIndexes}
  IN ConnectionVarIndexes # {} =>
       /\ \A i \in ConnectionVarIndexes :
            /\ HasOwn(namedConnections, AliasOfVar(i))
            /\ ObjGet(namedConnections, AliasOfVar(i)) = Str(env[i].value)
       /\ res.op = "list_connections" => ListedPairs = pairs

\* the variables that produce an entry: not the one whose alias is __proto__, and
\* among variables with the same alias the last in environment order
EffectiveVarIndexes ==
  {i \in ConnectionVarIndexes :
     /\ AliasOfVar(i) # <<"_","_","p","r","o","t","o","_","_">>
     /\ \A j \in ConnectionVarIndexes : AliasOfVar(j) = AliasOfVar(i) => j <= i}

\* C10 amended: the map holds one connection per distinct alias (suffix of the
\* key, lowercased, underscores kept) with the raw value of the last variable
\* giving that alias, none for the alias __proto__, and when at least one such
\* entry results the listing returns exactly these pairs.
C10_LastVariablePerAliasListed ==
  LET pairs == {<<AliasOfVar(i), Str(env[i].value)>> : i \in EffectiveVarIndexes}
  IN EffectiveVarIndexes # {} =>
       /\ NamedPairs = pairs
       /\ Len(namedConnections) = Cardinality(pairs)
       /\ res.op = "list_connections" => ListedPairs = pairs

\* C10's case: CONNECTION_HR_DB is set, the listing has run and shows hr_db with
\* the variable's value.
C10_Witness ==
  /\ res.op = "list_connections"
  /\ \E i \in 1..Len(env) :
       /\ env[i].key = <<"C","O","N","N","E","C","T","I","O","N","_","H","R","_","D","B">>
       /\ env[i].value = ConnY
       /\ <<(<<"h","r","_","d","b">>), Str(ConnY)>> \in ListedPairs
  /\ Cardinality(ListedPairs) = 2

-----------------------------------------------------------------------------
(* Inputs of the translation model *)

\* Most key=value pairs in one connection string.
MaxPairs == 3

\* pairs that select integrated security
IntegratedPairs == { <<"I","n","t","e","g","r","a","t","e","d"," ","S","e","c","u","r","i","t","y","=","S","S","P","I">>, <<"i","n","t","e","g","r","a","t","e","d"," ","s","e","c","u","r","i","t","y"," ","="," ","T","r","u","e">> }

UserPairs == { <<"U","s","e","r"," ","I","d","=","b","o","b">> }

PasswordPairs == { <<"P","w","d","=","p","w">> }

OtherPairs ==
  { <<"D","a","t","a"," ","S","o","u","r","c","e","=","S">>, <<"I","n","i","t","i","a","l"," ","C","a","t","a","l","o","g","=","D">>, <<"I","n","t","e","g","r","a","t","e","d"," ","S","e","c","u","r","i","t","y","=","n","o">>, <<"E","n","c","r","y","p","t","=","f","a","l","s","e">> }

PairTexts == IntegratedPairs \cup UserPairs \cup PasswordPairs \cup OtherPairs

PairLists == UNION { [1..n -> PairTexts] : n \in 0..MaxPairs }

\* with and without the trailing semicolon
Terminators == { <<>>, <<";">> }

\* process-wide Windows credentials: any subset of the three fields
CredentialSets ==
  { (IF u THEN <<[k |-> <<"u","s","e","r","n","a","m","e">>, v |-> Str(<<"u">>)]>> ELSE <<>>)
      \o (IF p THEN <<[k |-> <<"p","a","s","s","w","o","r","d">>, v |-> Str(<<"p">>)]>> ELSE <<>>)
      \o (IF d THEN <<[k |-> <<"d","o","m","a","i","n">>, v |-> Str(<<"D">>)]>> ELSE <<>>)
    : u \in BOOLEAN, p \in BOOLEAN, d \in BOOLEAN }

InitParse ==
  /\ Constructed(<<>>)
  /\ \E pairs \in PairLists, term \in Terminators, creds \in CredentialSets :
       res = [op |-> "call", fn |-> "parseConnectionString", pairs |-> pairs,
              connectionString |-> Join(pairs, <<";">>) \o term,
              envCredentials |-> creds]

\* the call parseConnectionString(connectionString, envCredentials) runs
Parse ==
  /\ res.op = "call" /\ res.fn = "parseConnectionString"
  /\ res' = [op |-> "parseConnectionString", pairs |-> res.pairs,
             connectionString |-> res.connectionString,
             envCredentials |-> res.envCredentials,
             out |-> ParseConnectionString(res.connectionString, res.envCredentials)]
  /\ UNCHANGED <<env, defaultConnectionString, windowsCredentials, namedConnections,
                 connections, sessions, calls, request>>

NextParse == Parse

SpecParse == InitParse /\ [][NextParse]_vars

-----------------------------------------------------------------------------
(* Claims about translation, checked under SpecParse *)

Parsed == res.op = "parseConnectionString"

\* the string holds a pair selecting integrated security
SelectsIntegrated == \E i \in 1..Len(res.pairs) : res.pairs[i] \in IntegratedPairs

CredHas(name) == HasOwn(res.envCredentials, name)

AuthOptions == res.out.authentication.options

\* C8 as stated: integrated security selected anywhere in the string and process
\* credentials with neither username nor password give type ntlm and a config
\* with no userName and no password field.
C8_NoCredentialsOmitsFields ==
  (Parsed /\ SelectsIntegrated /\ ~CredHas(<<"u","s","e","r","n","a","m","e">>)
          /\ ~CredHas(<<"p","a","s","s","w","o","r","d">>))
    => /\ res.out.authentication.type = "ntlm"
       /\ ~HasOwn(AuthOptions, <<"u","s","e","r","N","a","m","e">>)
       /\ ~HasOwn(AuthOptions, <<"p","a","s","s","w","o","r","d">>)

\* C9 as stated: integrated security selected and process credentials with a
\* username give type ntlm carrying that username, and the password and domain of
\* the process credentials when present; a field the credentials lack is not
\* taken from them.
C9_CredentialsInjected ==
  (Parsed /\ SelectsIntegrated /\ CredHas(<<"u","s","e","r","n","a","m","e">>))
    => /\ res.out.authentication.type = "ntlm"
       /\ ObjGet(AuthOptions, <<"u","s","e","r","N","a","m","e">>)
            = ObjGet(res.envCredentials, <<"u","s","e","r","n","a","m","e">>)
       /\ CredHas(<<"p","a","s","s","w","o","r","d">>) =>
            ObjGet(AuthOptions, <<"p","a","s","s","w","o","r","d">>)
              = ObjGet(res.envCredentials, <<"p","a","s","s","w","o","r","d">>)
       /\ IF CredHas(<<"d","o","m","a","i","n">>)
            THEN ObjGet(AuthOptions, <<"d","o","m","a","i","n">>)
                   = ObjGet(res.envCredentials, <<"d","o","m","a","i","n">>)
            ELSE ~HasOwn(AuthOptions, <<"d","o","m","a","i","n">>)

-----------------------------------------------------------------------------
(* The cache of live sessions: ConnectionManager.getConnection,              *)
(* its 'connect' and 'error' handlers, and closeAllConnections               *)

\* Most getConnection calls in one run.
MaxCalls == 3

\* a tedious Connection object, by its number in sessions
Conn(id) == [t |-> "connection", id |-> id]

\* errors the driver reports
LoginError == Error(<<"L","o","g","i","n"," ","f","a","i","l","e","d">>)

SocketError == Error(<<"C","o","n","n","e","c","t","i","o","n"," ","l","o","s","t">>)

\* thrown by parseConnectionString when handed a value that is not a string
SplitTypeError == Error(<<"c","o","n","n","e","c","t","i","o","n","S","t","r","i","n","g",".","s","p","l","i","t"," ","i","s"," ","n","o","t"," ","a"," ","f","u","n","c","t","i","o","n">>)

\* Map.prototype.set
MapSet(conns, key, id) == (key :> id) @@ conns

\* Map.prototype.delete
MapDelete(conns, key) == [k \in (DOMAIN conns) \ {key} |-> conns[k]]

\* faulty variant: the cache is never consulted
CachedLoggedIn_never(conns, sess, key) == 0

\* the cached session for key if there is one and it reports LoggedIn, else 0
CachedLoggedIn(conns, sess, key) ==
  IF key \in DOMAIN conns /\ sess[conns[key]].state = "LoggedIn" THEN conns[key] ELSE 0

\* faulty variant: the session is stored whatever the outcome of the handshake
OnConnect_alwaysCache(conns, key, id, err) == MapSet(conns, key, id)

\* faulty variant: a session that logs in does not replace an entry already there
OnConnect_keepFirst(conns, key, id, err) ==
  IF Truthy(err) \/ key \in DOMAIN conns THEN conns ELSE MapSet(conns, key, id)

\* faulty variant: a failed handshake removes the entry under its key
OnConnect_evictOnFailure(conns, key, id, err) ==
  IF Truthy(err) THEN MapDelete(conns, key) ELSE MapSet(conns, key, id)

\* the cache after connection.on('connect', (err) => ...) has run
OnConnect(conns, key, id, err) ==
  IF Truthy(err) THEN conns ELSE MapSet(conns, key, id)

\* faulty variant: the error handler leaves the cache alone
OnError_keep(conns, key) == conns

\* the cache after connection.on('error', (err) => ...) has run
OnError(conns, key) == MapDelete(conns, key)

\* faulty variant: the handlers never settle the promise
Settle_never(cs, c, status, value) == cs

\* faulty variant: a later resolve or reject replaces the outcome of the promise
Settle_again(cs, c, status, value) ==
  [cs EXCEPT ![c].status = status, ![c].value = value]

\* resolve(value) or reject(value) of the promise of call c: a promise settles once
Settle(cs, c, status, value) ==
  IF cs[c].status = "pending"
    THEN [cs EXCEPT ![c].status = status, ![c].value = value]
    ELSE cs

\* sessions that reported an 'error' event
FaultedSessions == {s \in 1..Len(sessions) : sessions[s].fault = "error"}

\* sessions opened for connection string key
SessionsOf(key) ==
  {s \in 1..Len(sessions) : key.t = "string" /\ sessions[s].key = key.v}

\* the call that created session s
OpenerOf(s) == CHOOSE c \in 1..Len(calls) : calls[c].opened = s

\* a call record. found, live and faulted are what the call saw when it started:
\* the cache entry under its key, and the sessions of its key that were logged
\* in, respectively had reported an error
CallRecord(key, status, value, opened) ==
  [ key |-> key, status |-> status, value |-> value, opened |-> opened,
    found |-> IF key.t = "string" /\ key.v \in DOMAIN connections
                THEN connections[key.v] ELSE 0,
    live |-> {s \in SessionsOf(key) : sessions[s].state = "LoggedIn"},
    faulted |-> SessionsOf(key) \cap FaultedSessions ]

ConfigVars ==
  <<env, defaultConnectionString, windowsCredentials, namedConnections, request, res>>

\* the body of getConnection(connectionString, connectionName) up to its first
\* suspension: resolution, the look into the cache, and the start of a handshake
Acquire(connectionString, connectionName) ==
  LET r == GetConnectionString(namedConnections, defaultConnectionString,
                               connectionString, connectionName)
  IN IF r.threw
       THEN /\ calls' = Append(calls, CallRecord(Undefined, "rejected", r.value, 0))
            /\ UNCHANGED <<connections, sessions>>
     ELSE IF r.value.t # "string"
       THEN /\ calls' = Append(calls, CallRecord(r.value, "rejected", SplitTypeError, 0))
            /\ UNCHANGED <<connections, sessions>>
     ELSE LET actual == r.value.v
              hit == CachedLoggedIn(connections, sessions, actual)
          IN IF hit # 0
               THEN /\ calls' = Append(calls, CallRecord(r.value, "resolved", Conn(hit), 0))
                    /\ UNCHANGED <<connections, sessions>>
               ELSE /\ sessions' = Append(sessions,
                         [ key |-> actual, state |-> "Connecting",
                           config |-> ParseConnectionString(actual, windowsCredentials),
                           login |-> FALSE, fault |-> "none", err |-> Undefined ])
                    /\ calls' = Append(calls,
                         CallRecord(r.value, "pending", Undefined, Len(sessions) + 1))
                    /\ UNCHANGED connections

\* a getConnection(connectionString, connectionName) call made on its own
GetConnection(connectionString, connectionName) ==
  /\ Len(calls) < MaxCalls
  /\ Acquire(connectionString, connectionName)
  /\ UNCHANGED ConfigVars

\* the driver emits 'connect' without error: the handshake of session s succeeded
ConnectSuccess(s) ==
  /\ sessions[s].state = "Connecting"
  /\ sessions' = [sessions EXCEPT ![s].state = "LoggedIn", ![s].login = TRUE]
  /\ connections' = OnConnect(connections, sessions[s].key, s, Undefined)
  /\ calls' = Settle(calls, OpenerOf(s), "resolved", Conn(s))
  /\ UNCHANGED ConfigVars

\* the driver emits 'connect' with an error: the handshake of session s failed
ConnectFailure(s) ==
  /\ sessions[s].state = "Connecting"
  /\ sessions' = [sessions EXCEPT ![s].state = "Final", ![s].fault = "connect",
                                  ![s].err = LoginError]
  /\ connections' = OnConnect(connections, sessions[s].key, s, LoginError)
  /\ calls' = Settle(calls, OpenerOf(s), "rejected", LoginError)
  /\ UNCHANGED ConfigVars

\* the driver emits 'error' on session s (during the handshake or after login)
SessionError(s) ==
  /\ sessions[s].state \in {"Connecting", "LoggedIn"}
  /\ sessions' = [sessions EXCEPT ![s].state = "Final", ![s].fault = "error",
                                  ![s].err = SocketError]
  /\ connections' = OnError(connections, sessions[s].key)
  /\ calls' = Settle(calls, OpenerOf(s), "rejected", SocketError)
  /\ UNCHANGED ConfigVars

\* the server ends session s without an 'error' event: no handler runs
SessionEnd(s) ==
  /\ sessions[s].state = "LoggedIn"
  /\ sessions' = [sessions EXCEPT ![s].state = "Final"]
  /\ UNCHANGED <<connections, calls>>
  /\ UNCHANGED ConfigVars

\* faulty variant: the cache is cleared and no session is closed
CloseAllConnections_clearOnly ==
  /\ connections' = <<>>
  /\ UNCHANGED <<sessions, calls>>
  /\ UNCHANGED ConfigVars

\* closeAllConnections(): close() on every cached session, then clear()
CloseAllConnections ==
  /\ sessions' = [s \in 1..Len(sessions) |->
                    IF \E k \in DOMAIN connections : connections[k] = s
                      THEN [sessions[s] EXCEPT !.state = "Final"]
                      ELSE sessions[s]]
  /\ connections' = <<>>
  /\ UNCHANGED calls
  /\ UNCHANGED ConfigVars

\* environments the manager is started under
ManagerEnvs ==
  { <<>>,
    << [key |-> <<"M","S","S","Q","L","_","C","O","N","N","E","C","T","I","O","N","_","S","T","R","I","N","G">>, value |-> ConnX],
       [key |-> <<"C","O","N","N","E","C","T","I","O","N","_","H","R","_","D","B">>, value |-> <<"S","e","r","v","e","r","=","y",";","I","n","t","e","g","r","a","t","e","d"," ","S","e","c","u","r","i","t","y","=","S","S","P","I">>],
       [key |-> <<"W","I","N","D","O","W","S","_","U","S","E","R","N","A","M","E">>, value |-> <<"u">>] >> }

CallExplicitInputs == { Undefined, Str(ConnX) }

CallAliasInputs == { Undefined, Str(<<"h","r","_","d","b">>), Str(<<"n","o","p","e">>) }

Init ==
  /\ \E e \in ManagerEnvs : Constructed(e)
  /\ res = NoResult

Next ==
  \/ \E cs \in CallExplicitInputs, name \in CallAliasInputs : GetConnection(cs, name)
  \/ \E s \in 1..Len(sessions) : ConnectSuccess(s)
  \/ \E s \in 1..Len(sessions) : ConnectFailure(s)
  \/ \E s \in 1..Len(sessions) : SessionError(s)
  \/ \E s \in 1..Len(sessions) : SessionEnd(s)
  \/ CloseAllConnections

Spec == Init /\ [][Next]_vars

-----------------------------------------------------------------------------
(* Claims about the cache, checked under Spec *)

CallIds == 1..Len(calls)

SessionIds == 1..Len(sessions)

\* call c resolved to a connection string (its key in the cache)
HasKey(c) == calls[c].key.t = "string"

\* c1 and c2 are the first and the second acquisition for one key, c2 started
\* when the session c1 opened was logged in
TwoInSequence(c1, c2) ==
  /\ c1 < c2 /\ HasKey(c1) /\ calls[c2].key = calls[c1].key
  /\ \A c \in CallIds : (c < c2 /\ c # c1) => calls[c].key # calls[c1].key
  /\ calls[c1].opened # 0
  /\ calls[c1].opened \in calls[c2].live

\* C5: of two acquisitions in sequence for one resolved string, the second,
\* started while the first one's session is logged in, opens no session and
\* returns the session the first one cached: one handshake in total.
C5_SecondServedFromCache ==
  \A c1, c2 \in CallIds :
    TwoInSequence(c1, c2) =>
      /\ calls[c2].opened = 0
      /\ calls[c2].status = "resolved"
      /\ calls[c2].value = Conn(calls[c1].opened)
      /\ Cardinality({c \in 1..c2 : calls[c].key = calls[c1].key /\ calls[c].opened # 0}) = 1

\* C5's case: two acquisitions in sequence, the first resolved with the session
\* it opened, the second resolved with the same session.
C5_Witness ==
  \E c1, c2 \in CallIds :
    /\ TwoInSequence(c1, c2)
    /\ calls[c1].status = "resolved" /\ calls[c1].value = Conn(calls[c1].opened)
    /\ calls[c2].value = calls[c1].value

\* session s is the entry of the cache under its key
IsCached(s) ==
  sessions[s].key \in DOMAIN connections /\ connections[sessions[s].key] = s

\* C6: the step in which a cached session reports an error leaves no entry under
\* its key; no session that reported an error is ever returned by an
\* acquisition; and an acquisition that starts with no entry under its key
\* starts a fresh handshake.
C6_ErrorEvictsAndNextReconnects ==
  [][ /\ \A s \in SessionIds :
           (IsCached(s) /\ sessions[s].fault = "none" /\ sessions'[s].fault = "error")
             => sessions[s].key \notin DOMAIN connections'
      /\ Len(calls') = Len(calls) + 1 =>
           LET c == calls'[Len(calls')]
           IN /\ (c.status = "resolved" => c.value.id \notin FaultedSessions)
              /\ (c.key.t = "string" /\ c.key.v \notin DOMAIN connections) =>
                   /\ Len(sessions') = Len(sessions) + 1
                   /\ c.opened = Len(sessions')
                   /\ sessions'[c.opened].state = "Connecting"
                   /\ c.status = "pending"
    ]_vars

\* C6's case: a session that logged in and then reported an error, and a later
\* acquisition for its key that found the slot empty, opened a new session and
\* resolved with it.
C6_Witness ==
  \E s \in SessionIds, c \in CallIds :
    /\ sessions[s].login /\ sessions[s].fault = "error"
    /\ HasKey(c) /\ calls[c].key.v = sessions[s].key
    /\ s \in calls[c].faulted /\ calls[c].found = 0
    /\ calls[c].opened > s
    /\ calls[c].status = "resolved" /\ calls[c].value = Conn(calls[c].opened)

\* C7: every session in the cache has completed a successful login, and a
\* session whose handshake failed (a 'connect' event carrying an error, or an
\* 'error' event before login) is in no cache slot while its call is rejected
\* with the error the driver reported.
C7_FailedHandshakeNeverCached ==
  /\ \A k \in DOMAIN connections : sessions[connections[k]].login
  /\ \A s \in SessionIds :
       (~sessions[s].login /\ sessions[s].fault # "none") =>
         /\ \A k \in DOMAIN connections : connections[k] # s
         /\ calls[OpenerOf(s)].status = "rejected"
         /\ calls[OpenerOf(s)].value = sessions[s].err

\* C7's case: two acquisitions for one key raced; one handshake failed and its
\* call was rejected, the other logged in and is the cached session.
C7_Witness ==
  \E s1, s2 \in SessionIds :
    /\ s1 # s2 /\ sessions[s1].key = sessions[s2].key
    /\ sessions[s2].fault = "connect" /\ calls[OpenerOf(s2)].status = "rejected"
    /\ sessions[s1].state = "LoggedIn" /\ IsCached(s1)
    /\ s1 < s2


-----------------------------------------------------------------------------
(* Claims about the source of the named connections, checked under SpecLoad *)

\* the entries a structured variable contributes: those of its JSON object
BlobEntries(name) == ParsedOrEmpty(EnvGet(env, name))

\* a structured variable is set (to a non-empty text)
BlobSet(name) == Truthy(EnvGet(env, name))

\* the map holds the entries of one blob source, chosen by precedence
FromBlobsByPrecedence ==
  IF BlobSet(<<"c","o","n","n","e","c","t","i","o","n","s">>) THEN namedConnections = BlobEntries(<<"c","o","n","n","e","c","t","i","o","n","s">>)
  ELSE IF BlobSet(<<"M","S","S","Q","L","_","C","O","N","N","E","C","T","I","O","N","S">>)
    THEN namedConnections = BlobEntries(<<"M","S","S","Q","L","_","C","O","N","N","E","C","T","I","O","N","S">>)
  ELSE namedConnections = EmptyObject

\* C11 as stated: as soon as one CONNECTION_* variable exists the map holds only
\* aliases of such variables and no blob contributes; otherwise the connections
\* blob is the source if set, otherwise the MSSQL_CONNECTIONS blob.
C11_AnyVariableExcludesBlobs ==
  IF ConnectionVarIndexes # {}
    THEN \A p \in 1..Len(namedConnections) :
           \E i \in ConnectionVarIndexes :
             /\ namedConnections[p].k = AliasOfVar(i)
             /\ namedConnections[p].v = Str(env[i].value)
    ELSE FromBlobsByPrecedence

\* C11 amended: when the CONNECTION_* variables yield one or more aliases (a
\* variable whose alias is __proto__ yields none) the map holds exactly these
\* and no blob contributes; otherwise the connections blob is the only source if
\* set to a non-empty text, otherwise the MSSQL_CONNECTIONS blob; entries of two
\* sources are never merged.
C11_OneSourceByPrecedence ==
  IF EffectiveVarIndexes # {}
    THEN NamedPairs = {<<AliasOfVar(i), Str(env[i].value)>> : i \in EffectiveVarIndexes}
    ELSE FromBlobsByPrecedence

\* C11's case: a CONNECTION_* variable and a connections blob with other aliases
\* are both set; the map and the listing hold the variable's alias only.
C11_Witness ==
  /\ res.op = "list_connections"
  /\ EnvGet(env, <<"C","O","N","N","E","C","T","I","O","N","_","H","R","_","D","B">>) = Str(ConnX)
  /\ EnvGet(env, <<"c","o","n","n","e","c","t","i","o","n","s">>) = Str(JsonConnectionsText2)
  /\ ListedPairs = {<<<<"h","r","_","d","b">>, Str(ConnX)>>}

-----------------------------------------------------------------------------
(* The startup model with credentials: the manager is constructed under an
   environment holding credential variables, structured variables (some of
   them not JSON) and the default, and one per-call operation runs *)

IndividualCredentialKeys ==
  { <<"W","I","N","D","O","W","S","_","U","S","E","R","N","A","M","E">>, <<"W","I","N","D","O","W","S","_","P","A","S","S","W","O","R","D">>, <<"W","I","N","D","O","W","S","_","D","O","M","A","I","N">>,
    <<"M","S","S","Q","L","_","U","S","E","R","N","A","M","E">>, <<"M","S","S","Q","L","_","P","A","S","S","W","O","R","D">>, <<"M","S","S","Q","L","_","D","O","M","A","I","N">> }

IndividualCredentialValues == { <<>>, <<"a">>, <<"b">> }

CredentialBlobKeys == { <<"w","i","n","d","o","w","s","_","c","r","e","d","e","n","t","i","a","l","s">>, <<"M","S","S","Q","L","_","W","I","N","D","O","W","S","_","C","R","E","D","E","N","T","I","A","L","S">> }

CredentialBlobValues == { <<>>, JsonCredentialsText, JsonCredentialsText2, BadJsonText }

ConnectionBlobKeys == { <<"c","o","n","n","e","c","t","i","o","n","s">>, <<"M","S","S","Q","L","_","C","O","N","N","E","C","T","I","O","N","S">> }

ConnectionBlobValues == { <<>>, JsonConnectionsText, JsonConnectionsText2, BadJsonText }

StartupEnvEntries ==
  [key : IndividualCredentialKeys, value : IndividualCredentialValues]
    \cup [key : CredentialBlobKeys, value : CredentialBlobValues]
    \cup [key : ConnectionBlobKeys, value : ConnectionBlobValues]
    \cup [key : {<<"M","S","S","Q","L","_","C","O","N","N","E","C","T","I","O","N","_","S","T","R","I","N","G">>}, value : {ConnX}]

IntegratedText == <<"I","n","t","e","g","r","a","t","e","d"," ","S","e","c","u","r","i","t","y","=","S","S","P","I">>

\* the call getConnection makes: parseConnectionString(cs, this.windowsCredentials)
PendingParse(pairs, creds) ==
  [op |-> "call", fn |-> "parseConnectionString", pairs |-> pairs,
   connectionString |-> Join(pairs, <<";">>), envCredentials |-> creds]

\* the per-call operations of the startup model
StartupCalls(creds) ==
  { PendingList,
    PendingResolve(Undefined, Undefined),
    PendingResolve(Undefined, Str(<<"R","e","p","o","r","t","s">>)),
    PendingParse(<<IntegratedText>>, creds) }

InitStartup ==
  /\ \E n \in 0..MaxEnvLen :
       \E e \in EnvironmentsOver(StartupEnvEntries, n) : Constructed(e)
  /\ res \in StartupCalls(windowsCredentials)

NextStartup == List \/ Resolve \/ Parse

SpecStartup == InitStartup /\ [][NextStartup]_vars

-----------------------------------------------------------------------------
(* Claims about startup, checked under SpecStartup *)

\* the variable is present (set to a non-empty text)
Present(name) == Truthy(EnvGet(env, name))

\* the fields taken from three individual variables: the present ones only
TakenFrom(userVar, passVar, domainVar) ==
  (IF Present(userVar) THEN {<<<<"u","s","e","r","n","a","m","e">>, EnvGet(env, userVar)>>} ELSE {})
    \cup (IF Present(passVar) THEN {<<<<"p","a","s","s","w","o","r","d">>, EnvGet(env, passVar)>>} ELSE {})
    \cup (IF Present(domainVar) THEN {<<<<"d","o","m","a","i","n">>, EnvGet(env, domainVar)>>} ELSE {})

\* the field/value pairs of the process-wide Windows credentials
CredentialPairs ==
  {<<windowsCredentials[i].k, windowsCredentials[i].v>> : i \in 1..Len(windowsCredentials)}

\* C12: the credentials come from the first tier that matches and from it alone:
\* the present ones of WINDOWS_USERNAME / WINDOWS_PASSWORD / WINDOWS_DOMAIN if any
\* is present, else the windows_credentials blob, else the
\* MSSQL_WINDOWS_CREDENTIALS blob, else the present ones of the legacy
\* MSSQL_USERNAME / MSSQL_PASSWORD / MSSQL_DOMAIN.
C12_CredentialsFromFirstTier ==
  /\ Len(windowsCredentials) = Cardinality(CredentialPairs)
  /\ IF \/ Present(<<"W","I","N","D","O","W","S","_","U","S","E","R","N","A","M","E">>) \/ Present(<<"W","I","N","D","O","W","S","_","P","A","S","S","W","O","R","D">>)
        \/ Present(<<"W","I","N","D","O","W","S","_","D","O","M","A","I","N">>)
       THEN CredentialPairs =
              TakenFrom(<<"W","I","N","D","O","W","S","_","U","S","E","R","N","A","M","E">>, <<"W","I","N","D","O","W","S","_","P","A","S","S","W","O","R","D">>, <<"W","I","N","D","O","W","S","_","D","O","M","A","I","N">>)
     ELSE IF Present(<<"w","i","n","d","o","w","s","_","c","r","e","d","e","n","t","i","a","l","s">>)
       THEN windowsCredentials = BlobEntries(<<"w","i","n","d","o","w","s","_","c","r","e","d","e","n","t","i","a","l","s">>)
     ELSE IF Present(<<"M","S","S","Q","L","_","W","I","N","D","O","W","S","_","C","R","E","D","E","N","T","I","A","L","S">>)
       THEN windowsCredentials = BlobEntries(<<"M","S","S","Q","L","_","W","I","N","D","O","W","S","_","C","R","E","D","E","N","T","I","A","L","S">>)
     ELSE CredentialPairs = TakenFrom(<<"M","S","S","Q","L","_","U","S","E","R","N","A","M","E">>, <<"M","S","S","Q","L","_","P","A","S","S","W","O","R","D">>, <<"M","S","S","Q","L","_","D","O","M","A","I","N">>)

\* C12's case: WINDOWS_USERNAME and a credentials blob with username, password
\* and domain are both set; a string asking for integrated security has been
\* translated and carries the variable's user name and nothing of the blob.
C12_Witness ==
  /\ res.op = "parseConnectionString"
  /\ EnvGet(env, <<"W","I","N","D","O","W","S","_","U","S","E","R","N","A","M","E">>) = Str(<<"a">>)
  /\ EnvGet(env, <<"w","i","n","d","o","w","s","_","c","r","e","d","e","n","t","i","a","l","s">>) = Str(JsonCredentialsText)
  /\ windowsCredentials = <<[k |-> <<"u","s","e","r","n","a","m","e">>, v |-> Str(<<"a">>)]>>
  /\ res.out.authentication.options = <<[k |-> <<"u","s","e","r","N","a","m","e">>, v |-> Str(<<"a">>)]>>

\* the credentials blob that startup parses is not JSON
CredentialsParseFailed ==
  /\ ~Present(<<"W","I","N","D","O","W","S","_","U","S","E","R","N","A","M","E">>) /\ ~Present(<<"W","I","N","D","O","W","S","_","P","A","S","S","W","O","R","D">>)
  /\ ~Present(<<"W","I","N","D","O","W","S","_","D","O","M","A","I","N">>)
  /\ EnvGet(env, IF Present(<<"w","i","n","d","o","w","s","_","c","r","e","d","e","n","t","i","a","l","s">>)
                   THEN <<"w","i","n","d","o","w","s","_","c","r","e","d","e","n","t","i","a","l","s">> ELSE <<"M","S","S","Q","L","_","W","I","N","D","O","W","S","_","C","R","E","D","E","N","T","I","A","L","S">>)
       = Str(BadJsonText)

\* the connections blob that startup parses is not JSON
ConnectionsParseFailed ==
  /\ ConnectionVarIndexes = {}
  /\ EnvGet(env, IF Present(<<"c","o","n","n","e","c","t","i","o","n","s">>)
                   THEN <<"c","o","n","n","e","c","t","i","o","n","s">> ELSE <<"M","S","S","Q","L","_","C","O","N","N","E","C","T","I","O","N","S">>)
       = Str(BadJsonText)

\* a per-call operation has run
Operated == res.op \in {"list_connections", "getConnectionString", "parseConnectionString"}

\* C13: when a structured blob fails to parse the manager is constructed all the
\* same, the setting the blob feeds is empty, the default is the value of
\* MSSQL_CONNECTION_STRING, and every per-call operation gives the outcome it
\* gives with that setting empty, never the parse error.
C13_ParseFailureNonFatal ==
  /\ CredentialsParseFailed => windowsCredentials = EmptyObject
  /\ ConnectionsParseFailed => namedConnections = EmptyObject
  /\ (CredentialsParseFailed \/ ConnectionsParseFailed) =>
       /\ defaultConnectionString = EnvGet(env, <<"M","S","S","Q","L","_","C","O","N","N","E","C","T","I","O","N","_","S","T","R","I","N","G">>)
       /\ res.op = "list_connections" =>
            /\ res.out.defaultConnection =
                 (IF Present(<<"M","S","S","Q","L","_","C","O","N","N","E","C","T","I","O","N","_","S","T","R","I","N","G">>)
                    THEN <<"A","v","a","i","l","a","b","l","e">> ELSE <<"N","o","t"," ","c","o","n","f","i","g","u","r","e","d">>)
            /\ ConnectionsParseFailed => res.out.totalConnections = 0
       /\ res.op = "getConnectionString" =>
            /\ res.out # Throw(JsonSyntaxError)
            /\ ConnectionsParseFailed =>
                 res.out = GetConnectionString(EmptyObject,
                             EnvGet(env, <<"M","S","S","Q","L","_","C","O","N","N","E","C","T","I","O","N","_","S","T","R","I","N","G">>), res.explicit, res.alias)
       /\ res.op = "parseConnectionString" =>
            /\ res.out.authentication.type = "ntlm"
            /\ CredentialsParseFailed => res.out.authentication.options = EmptyObject

\* C13's case: the connections blob is not JSON and the default is set;
\* resolution with no arguments has run and returned the default.
C13_Witness ==
  /\ ConnectionsParseFailed /\ EnvGet(env, <<"c","o","n","n","e","c","t","i","o","n","s">>) = Str(BadJsonText)
  /\ namedConnections = EmptyObject
  /\ res.op = "getConnectionString" /\ res.alias = Undefined
  /\ res.out = Return(Str(ConnX))

-----------------------------------------------------------------------------
(* executeQuery: one request on a live session, the driver's 'row' events and
   the completion callback *)

\* Most 'row' events the driver emits for one request.
MaxRows == 3

\* a JavaScript number
Num(n) == [t |-> "number", v |-> n]

\* a column of a 'row' event as the driver hands it over
Column(colName, value) == [metadata |-> [colName |-> colName], value |-> value]

\* the error the driver passes to the completion callback
RequestError == Error(<<"I","n","v","a","l","i","d"," ","o","b","j","e","c","t"," ","n","a","m","e">>)

\* rows the driver emits: SELECT id; SELECT id, name (two rows);
\* SELECT a.id, b.id; SELECT COUNT(*), MAX(id) (columns without a name)
RowShapes ==
  { << Column(<<"i","d">>, Num(1)) >>,
    << Column(<<"i","d">>, Num(1)), Column(<<"n","a","m","e">>, Str(<<"a">>)) >>,
    << Column(<<"i","d">>, Num(2)), Column(<<"n","a","m","e">>, Str(<<"b">>)) >>,
    << Column(<<"i","d">>, Num(1)), Column(<<"i","d">>, Num(2)) >>,
    << Column(<<>>, Num(3)), Column(<<>>, Num(4)) >> }

RECURSIVE RowFrom(_, _)
\* columns.forEach(column => row[column.metadata.colName] = column.value)
RowFrom(columns, row) ==
  IF columns = <<>> THEN row
  ELSE RowFrom(Tail(columns), ObjSet(row, Head(columns).metadata.colName, Head(columns).value))

\* the promise and the rows of executeQuery(connection, sql) once the request
\* has been created and handed to execSql; sent lists the texts handed over
NewRequest(sql) ==
  [status |-> "pending", rows |-> <<>>, emitted |-> <<>>, value |-> Undefined,
   sent |-> <<sql>>]

\* executeQuery(connection, sql): the request is created and handed to execSql
ExecuteQuery ==
  /\ request.status = "none"
  /\ request' = NewRequest(<<"S","E","L","E","C","T"," ","i","d"," ","F","R","O","M"," ","t">>)
  /\ UNCHANGED <<env, defaultConnectionString, windowsCredentials, namedConnections,
                 connections, sessions, calls, res>>

\* request.on('row', columns => ...)
OnRow(columns) ==
  /\ request.status = "pending"
  /\ Len(request.emitted) < MaxRows
  /\ request' = [request EXCEPT !.rows = Append(@, RowFrom(columns, EmptyObject)),
                                !.emitted = Append(@, columns)]
  /\ UNCHANGED <<env, defaultConnectionString, windowsCredentials, namedConnections,
                 connections, sessions, calls, res>>

\* the completion callback (err) => err ? reject(err) : resolve(rows)
OnCompletion(err) ==
  /\ request.status = "pending"
  /\ request' = IF Truthy(err)
                  THEN [request EXCEPT !.status = "rejected", !.value = err]
                  ELSE [request EXCEPT !.status = "resolved", !.value = request.rows]
  /\ UNCHANGED <<env, defaultConnectionString, windowsCredentials, namedConnections,
                 connections, sessions, calls, res>>

InitExec ==
  /\ Constructed(<<>>)
  /\ res = NoResult

NextExec ==
  \/ ExecuteQuery
  \/ \E columns \in RowShapes : OnRow(columns)
  \/ \E err \in {Undefined, RequestError} : OnCompletion(err)

SpecExec == InitExec /\ [][NextExec]_vars

-----------------------------------------------------------------------------
(* Claims about executeQuery, checked under SpecExec *)

\* the property names of a record
KeySet(obj) == {obj[i].k : i \in 1..Len(obj)}

\* the column names of a 'row' event
ColumnNames(columns) == {columns[j].metadata.colName : j \in 1..Len(columns)}

\* C14 as stated: a resolved request yields one record per 'row' event, in
\* emission order, whose keys are the column names of that event and which holds
\* for each column of the event the value emitted for it; a rejected request
\* yields the driver's error and no rows.
C14_RowsAsEmitted ==
  /\ request.status = "resolved" =>
       /\ Len(request.value) = Len(request.emitted)
       /\ \A i \in 1..Len(request.emitted) :
            /\ KeySet(request.value[i]) = ColumnNames(request.emitted[i])
            /\ \A j \in 1..Len(request.emitted[i]) :
                 ObjGet(request.value[i], request.emitted[i][j].metadata.colName)
                   = request.emitted[i][j].value
  /\ request.status = "rejected" => request.value = RequestError

-----------------------------------------------------------------------------
(* Query helpers (src/utils/query.ts) and the synchronous start of the
   execute_query tool *)

\* the limit execute_query passes to addLimitToQuery
QueryLimit == 20

OnlySelectMessage == <<"O","n","l","y"," ","S","E","L","E","C","T"," ","q","u","e","r","i","e","s"," ","a","r","e"," ","a","l","l","o","w","e","d"," ","f","o","r"," ","s","e","c","u","r","i","t","y"," ","r","e","a","s","o","n","s">>

BlockedKeywordMessage == <<"Q","u","e","r","y"," ","c","o","n","t","a","i","n","s"," ","b","l","o","c","k","e","d"," ","k","e","y","w","o","r","d",":"," ">>

\* const blockedKeywords, in the order of the array
BlockedKeywords ==
  << <<"i","n","s","e","r","t">>, <<"u","p","d","a","t","e">>, <<"d","e","l","e","t","e">>, <<"d","r","o","p">>, <<"c","r","e","a","t","e">>, <<"a","l","t","e","r">>,
     <<"t","r","u","n","c","a","t","e">>, <<"e","x","e","c">>, <<"e","x","e","c","u","t","e">>, <<"s","p","_">>, <<"x","p","_">> >>

\* faulty variant: every query is accepted
ValidateReadOnlyQuery_acceptAll(query) == Return(Undefined)

\* faulty variant: the text is tested as written, without lowercasing
ValidateReadOnlyQuery_caseSensitive(query) ==
  LET normalizedQuery == Trim(query)
      hits == {i \in 1..Len(BlockedKeywords) : Includes(normalizedQuery, BlockedKeywords[i])}
  IN IF ~StartsWith(normalizedQuery, <<"s","e","l","e","c","t">>) THEN Throw(Error(OnlySelectMessage))
     ELSE IF hits # {}
       THEN Throw(Error(BlockedKeywordMessage
                          \o BlockedKeywords[CHOOSE i \in hits : \A j \in hits : i <= j]))
     ELSE Return(Undefined)

\* validateReadOnlyQuery(query): returns nothing or throws; the loop throws at
\* the first keyword of the array that the text includes
ValidateReadOnlyQuery(query) ==
  LET normalizedQuery == ToLowerCase(Trim(query))
      hits == {i \in 1..Len(BlockedKeywords) : Includes(normalizedQuery, BlockedKeywords[i])}
  IN IF ~StartsWith(normalizedQuery, <<"s","e","l","e","c","t">>) THEN Throw(Error(OnlySelectMessage))
     ELSE IF hits # {}
       THEN Throw(Error(BlockedKeywordMessage
                          \o BlockedKeywords[CHOOSE i \in hits : \A j \in hits : i <= j]))
     ELSE Return(Undefined)

Digits == <<"0","1","2","3","4","5","6","7","8","9">>

RECURSIVE NumberToString(_)
\* `${limit}` for a non-negative integer
NumberToString(n) ==
  IF n < 10 THEN <<Digits[n + 1]>> ELSE Append(NumberToString(n \div 10), Digits[(n % 10) + 1])

\* length of the match of /^select\s+/i at the start of s, 0 when there is none
LeadingSelectMatch(s) ==
  IF StartsWith(ToLowerCase(s), <<"s","e","l","e","c","t">>) /\ Len(s) >= 7 /\ s[7] \in WhiteSpace
    THEN CHOOSE n \in 7..Len(s) :
           /\ \A i \in 7..n : s[i] \in WhiteSpace
           /\ (n < Len(s) => s[n + 1] \notin WhiteSpace)
    ELSE 0

\* addLimitToQuery(query, limit)
AddLimitToQuery(query, limit) ==
  LET trimmedQuery == Trim(query)
      n == LeadingSelectMatch(trimmedQuery)
  IN IF Includes(ToLowerCase(trimmedQuery), <<"s","e","l","e","c","t"," ","t","o","p">>) THEN trimmedQuery
     ELSE IF n = 0 THEN trimmedQuery
     ELSE <<"S","E","L","E","C","T"," ","T","O","P"," ">> \o NumberToString(limit) \o <<" ">> \o Substring(trimmedQuery, n)

\* the parts the query texts of the model are composed of
QueryLeading == { <<>>, <<" ">> }

QueryVerbs == { <<"S","E","L","E","C","T">>, <<"s","e","l","e","c","t">>, <<"S","e","l","e","c","t">>, <<"D","E","L","E","T","E">>, <<"W","I","T","H"," ","c"," ","A","S"," ","(","S","E","L","E","C","T"," ","1",")"," ","S","E","L","E","C","T">> }

QueryGaps == { <<" ">>, <<"\t">>, <<" ", " ">>, <<>> }

QueryQuantifiers == { <<>>, <<"T","O","P"," ","5"," ">>, <<"T","O","P"," ","1","0","0","0"," ">>, <<"D","I","S","T","I","N","C","T"," ">> }

QueryColumns == { <<"*">>, <<"c","r","e","a","t","e","d","_","a","t">>, <<"(","S","E","L","E","C","T"," ","T","O","P"," ","1"," ","b"," ","F","R","O","M"," ","u",")">> }

QuerySources ==
  { <<" ","F","R","O","M"," ","t">>, <<" ","F","R","O","M"," ","U","p","d","a","t","e","s">>, <<" ","F","R","O","M"," ","t",";"," ","D","R","O","P"," ","T","A","B","L","E"," ","t">>,
    <<" ","F","R","O","M"," ","t"," ","W","H","E","R","E"," ","n"," ","="," ","'","s","e","l","e","c","t"," ","t","o","p","'">> }

QueryTrailing == { <<>>, <<"\n">> }

QueryTexts ==
  { l \o v \o g \o q \o c \o s \o t :
      l \in QueryLeading, v \in QueryVerbs, g \in QueryGaps, q \in QueryQuantifiers,
      c \in QueryColumns, s \in QuerySources, t \in QueryTrailing }

-----------------------------------------------------------------------------
(* Claims about embedded credentials, checked under SpecParse *)

\* the string holds a User Id pair / a Pwd pair
HasUserPair == \E i \in 1..Len(res.pairs) : res.pairs[i] \in UserPairs

HasPasswordPair == \E i \in 1..Len(res.pairs) : res.pairs[i] \in PasswordPairs

\* C17 as stated: when the string embeds a user or a password, the userName and
\* the password of the config are the embedded values and never those of the
\* process-wide credentials, wherever the pairs stand in the string.
C17_EmbeddedCredentialsWin ==
  Parsed =>
    /\ HasUserPair => ObjGet(AuthOptions, <<"u","s","e","r","N","a","m","e">>) = Str(<<"b","o","b">>)
    /\ HasPasswordPair => ObjGet(AuthOptions, <<"p","a","s","s","w","o","r","d">>) = Str(<<"p","w">>)

-----------------------------------------------------------------------------
(* Claims about failures, races and the life of cache entries, checked under Spec *)

\* in this step the handshake of session s fails ('connect' with an error, or
\* 'error' before login)
HandshakeFails(s) == sessions[s].state = "Connecting" /\ sessions'[s].state = "Final"

\* in this step session s completes its login
LogsIn(s) == sessions[s].state = "Connecting" /\ sessions'[s].state = "LoggedIn"

\* C18 as stated: the step in which a handshake or login fails for key k leaves
\* the cache with no entry for k, whatever entry was there before.
C18_FailureEvictsKey ==
  [][ \A s \in SessionIds : HandshakeFails(s) => sessions[s].key \notin DOMAIN connections' ]_vars

\* C19: an acquisition that finds no logged-in entry under its key opens a
\* session of its own, also while another handshake for the key is under way;
\* each login resolves the call that opened the session with that session,
\* makes it the cache entry of the key (so the entry after two racing logins is
\* the one that completed last), and leaves every other session and call as it was.
C19_RacingLoginsBothServed ==
  [][ /\ \A c \in 1..Len(calls') :
           /\ (calls'[c].key.t = "string" /\ calls'[c].found = 0) => calls'[c].opened # 0
           /\ (calls'[c].opened # 0 /\ calls'[c].status = "resolved") =>
                calls'[c].value = Conn(calls'[c].opened)
      /\ \A s \in SessionIds :
           LogsIn(s) =>
             /\ sessions[s].key \in DOMAIN connections'
             /\ connections'[sessions[s].key] = s
             /\ calls'[OpenerOf(s)].status = "resolved"
             /\ calls'[OpenerOf(s)].value = Conn(s)
             /\ \A s1 \in SessionIds \ {s} : sessions'[s1] = sessions[s1]
             /\ \A c \in CallIds \ {OpenerOf(s)} : calls'[c] = calls[c]
    ]_vars

\* C19's case: two acquisitions for one key, the second started before the
\* first one's login; both resolved with their own session, both sessions are
\* logged in, and the entry is the session of the first call, whose login
\* completed last.
C19_Witness ==
  \E c1, c2 \in CallIds :
    /\ c1 < c2 /\ HasKey(c1) /\ calls[c1].key = calls[c2].key
    /\ calls[c1].opened # 0 /\ calls[c2].opened # 0
    /\ calls[c2].found = 0 /\ calls[c2].live = {}
    /\ calls[c1].status = "resolved" /\ calls[c1].value = Conn(calls[c1].opened)
    /\ calls[c2].status = "resolved" /\ calls[c2].value = Conn(calls[c2].opened)
    /\ sessions[calls[c1].opened].state = "LoggedIn"
    /\ sessions[calls[c2].opened].state = "LoggedIn"
    /\ connections[calls[c1].key.v] = calls[c1].opened

\* in this step closeAllConnections runs: every cached session is closed, the
\* cache is emptied, nothing else changes
ClosesAll ==
  /\ connections' = <<>>
  /\ calls' = calls
  /\ \A s \in SessionIds :
       sessions'[s] = IF \E k \in DOMAIN connections : connections[k] = s
                        THEN [sessions[s] EXCEPT !.state = "Final"] ELSE sessions[s]

\* C20: the cache maps each key to one session opened for that key, and an
\* entry leaves the cache only in a step in which a session of its key reports
\* an error, a session of its key completes its login and takes its place, or
\* closeAllConnections runs; a session that goes away silently stays cached.
C20_EntriesLeaveOnlyByErrorReplacementOrClose ==
  [][ /\ \A k \in DOMAIN connections' : sessions'[connections'[k]].key = k
      /\ \A k \in DOMAIN connections :
           (k \notin DOMAIN connections' \/ connections'[k] # connections[k]) =>
             \/ \E s \in SessionIds :
                  /\ sessions[s].key = k
                  /\ sessions[s].fault = "none" /\ sessions'[s].fault = "error"
             \/ /\ k \in DOMAIN connections'
                /\ sessions[connections'[k]].key = k
                /\ LogsIn(connections'[k])
             \/ ClosesAll
    ]_vars

\* C20's case: of two sessions for one key the first logged in and was cached,
\* then the second logged in and replaced it; the first is still logged in.
C20_Witness ==
  /\ Len(sessions) = 2
  /\ sessions[1].key = sessions[2].key
  /\ sessions[1].state = "LoggedIn" /\ sessions[2].state = "LoggedIn"
  /\ connections[sessions[2].key] = 2
  /\ calls[OpenerOf(1)].status = "resolved" /\ calls[OpenerOf(2)].status = "resolved"

-----------------------------------------------------------------------------
(* Claims about shutdown, checked under Spec *)

\* the sessions that are entries of the cache
CachedSessions == {connections[k] : k \in DOMAIN connections}

\* in this step a getConnection call starts
CallStarts == Len(calls') = Len(calls) + 1

\* C21: a closeAllConnections step closes every session that is in the cache
\* and leaves the cache empty, and an acquisition that starts with the cache
\* empty opens a session and waits for its handshake.
C21_CloseAllClosesCachedAndEmpties ==
  [][ /\ CloseAllConnections =>
           /\ connections' = <<>>
           /\ \A s \in CachedSessions : sessions'[s].state = "Final"
      /\ (CallStarts /\ connections = <<>> /\ calls'[Len(calls')].key.t = "string") =>
           /\ Len(sessions') = Len(sessions) + 1
           /\ calls'[Len(calls')].opened = Len(sessions')
           /\ calls'[Len(calls')].status = "pending"
           /\ sessions'[Len(sessions')].state = "Connecting"
    ]_vars

\* C21's case: the only session was logged in and cached, closeAllConnections
\* closed it and emptied the cache, and the next acquisition for the same key
\* found nothing, opened a second session and resolved with it.
C21_Witness ==
  /\ Len(sessions) = 2
  /\ sessions[1].login /\ sessions[1].fault = "none" /\ sessions[1].state = "Final"
  /\ sessions[2].key = sessions[1].key
  /\ calls[OpenerOf(2)].found = 0
  /\ calls[OpenerOf(2)].status = "resolved" /\ calls[OpenerOf(2)].value = Conn(2)

-----------------------------------------------------------------------------
(* The execute_query tool from end to end: validation, limit, acquisition of
   the session, execution, and the result handed back to the client *)

ToolErrorPrefix == <<"E","r","r","o","r"," ","e","x","e","c","u","t","i","n","g"," ","q","u","e","r","y",":"," ">>

\* the result the catch block returns
ToolError(err) ==
  [op |-> "result", isError |-> TRUE, text |-> ToolErrorPrefix \o err.message]

\* the result returned on success: text is the JSON of the content object, and
\* no isError property is set (read as false)
ToolSuccess(limitedQuery, result) ==
  [op |-> "result", isError |-> FALSE,
   content |-> [query |-> limitedQuery, rowCount |-> Len(result), data |-> result]]

PendingTool(query, connectionString, connectionName) ==
  [op |-> "call", fn |-> "execute_query", query |-> query,
   connectionString |-> connectionString, connectionName |-> connectionName]

ToolQueries ==
  { <<"S","E","L","E","C","T"," ","*"," ","F","R","O","M"," ","t">>, <<"s","e","l","e","c","t"," ","t","o","p"," ","5"," ","a"," ","f","r","o","m"," ","t">>, <<"D","E","L","E","T","E"," ","F","R","O","M"," ","t">>,
    <<"S","E","L","E","C","T"," ","*"," ","F","R","O","M"," ","U","p","d","a","t","e","s">> }

ToolEnvs == { <<>>, << [key |-> <<"M","S","S","Q","L","_","C","O","N","N","E","C","T","I","O","N","_","S","T","R","I","N","G">>, value |-> ConnX] >> }

InitTool ==
  /\ \E e \in ToolEnvs : Constructed(e)
  /\ \E query \in ToolQueries, cs \in {Undefined, Str(ConnY)},
        name \in {Undefined, Str(<<"n","o","p","e">>)} :
       res = PendingTool(query, cs, name)

\* execute_query up to its first await: validation, limit, and the call of
\* getConnection; a query that validation rejects is answered at once
ToolStart ==
  /\ res.op = "call" /\ res.fn = "execute_query"
  /\ LET v == ValidateReadOnlyQuery(res.query)
     IN IF v.threw
          THEN /\ res' = ToolError(v.value)
               /\ UNCHANGED <<connections, sessions, calls>>
          ELSE /\ Acquire(res.connectionString, res.connectionName)
               /\ res' = [op |-> "execute_query", awaiting |-> "getConnection",
                          query |-> res.query,
                          limitedQuery |-> AddLimitToQuery(res.query, QueryLimit),
                          call |-> Len(calls) + 1]
  /\ UNCHANGED <<env, defaultConnectionString, windowsCredentials, namedConnections, request>>

\* execute_query resumes after await getConnection(...): executeQuery is called
\* with the session, or the rejection is caught and answered
ToolAfterConnection ==
  /\ res.op = "execute_query" /\ res.awaiting = "getConnection"
  /\ calls[res.call].status # "pending"
  /\ IF calls[res.call].status = "resolved"
       THEN /\ request' = NewRequest(res.limitedQuery)
            /\ res' = [res EXCEPT !.awaiting = "executeQuery"]
       ELSE /\ res' = ToolError(calls[res.call].value)
            /\ UNCHANGED request
  /\ UNCHANGED <<env, defaultConnectionString, windowsCredentials, namedConnections,
                 connections, sessions, calls>>

\* execute_query resumes after await executeQuery(...): the rows are returned,
\* or the rejection is caught and answered
ToolAfterQuery ==
  /\ res.op = "execute_query" /\ res.awaiting = "executeQuery"
  /\ request.status \in {"resolved", "rejected"}
  /\ res' = IF request.status = "resolved"
              THEN ToolSuccess(res.limitedQuery, request.value)
              ELSE ToolError(request.value)
  /\ UNCHANGED <<env, defaultConnectionString, windowsCredentials, namedConnections,
                 connections, sessions, calls, request>>

NextTool ==
  \/ ToolStart
  \/ ToolAfterConnection
  \/ ToolAfterQuery
  \/ \E s \in 1..Len(sessions) : ConnectSuccess(s)
  \/ \E s \in 1..Len(sessions) : ConnectFailure(s)
  \/ \E s \in 1..Len(sessions) : SessionError(s)
  \/ \E columns \in RowShapes : OnRow(columns)
  \/ \E err \in {Undefined, RequestError} : OnCompletion(err)

SpecTool == InitTool /\ [][NextTool]_vars

-----------------------------------------------------------------------------
(* The execute_query tool over the composed query texts, called without a
   connection string or alias in a process that has no connection configured *)

InitQuery ==
  /\ Constructed(<<>>)
  /\ \E query \in QueryTexts : res = PendingTool(query, Undefined, Undefined)

NextQuery ==
  \/ ToolStart
  \/ ToolAfterConnection

SpecQuery == InitQuery /\ [][NextQuery]_vars

-----------------------------------------------------------------------------
(* Claims about the query helpers, checked under SpecQuery *)

\* execute_query has accepted the query and limited it
Accepted == res.op = "execute_query"

RECURSIVE ParseDigits(_, _)
\* the number written by the leading digits of s, acc when there is none left
ParseDigits(s, acc) ==
  IF s # <<>> /\ \E d \in 1..10 : Digits[d] = Head(s)
    THEN ParseDigits(Tail(s), 10 * acc + (CHOOSE d \in 1..10 : Digits[d] = Head(s)) - 1)
    ELSE acc

\* the text begins with SELECT TOP n for a number n of at most limit
LeadingTopAtMost(text, limit) ==
  LET lower == ToLowerCase(text)
      rest == Substring(text, 11)
  IN /\ StartsWith(lower, <<"s","e","l","e","c","t"," ","t","o","p"," ">>)
     /\ rest # <<>> /\ \E d \in 1..10 : Digits[d] = Head(rest)
     /\ ParseDigits(rest, 0) <= limit

\* C15 as stated: for every query the validation accepts, the text sent for
\* execution begins with a SELECT whose TOP clause bounds the result to at most
\* 20 rows.
C15_LimitedToTwentyRows ==
  Accepted => LeadingTopAtMost(res.limitedQuery, 20)

\* the keywords the claim lists
ClaimedKeywords ==
  { <<"i","n","s","e","r","t">>, <<"u","p","d","a","t","e">>, <<"d","e","l","e","t","e">>, <<"d","r","o","p">>, <<"c","r","e","a","t","e">>, <<"a","l","t","e","r">>,
    <<"t","r","u","n","c","a","t","e">>, <<"e","x","e","c">>, <<"e","x","e","c","u","t","e">>, <<"s","p","_">>, <<"x","p","_">> }

\* the query is one the validation must reject: its trimmed text does not start
\* with select, or it contains a listed keyword
Forbidden(query) ==
  \/ ~StartsWith(ToLowerCase(Trim(query)), <<"s","e","l","e","c","t">>)
  \/ \E kw \in ClaimedKeywords : Includes(ToLowerCase(query), kw)

\* the messages validation can give for the query
ValidationMessages(query) ==
  {OnlySelectMessage}
    \cup {BlockedKeywordMessage \o kw : kw \in {k \in ClaimedKeywords : Includes(ToLowerCase(query), k)}}

\* C16: the validation raises an error exactly for the queries whose trimmed text
\* does not start with 'select' or whose text contains one of the listed
\* keywords anywhere, letter case ignored; every other query is accepted and
\* goes on unmodified to the limit and the acquisition.
C16_OnlySelectAccepted ==
  [][ (res.op = "call") =>
        /\ (res'.op = "result") <=> Forbidden(res.query)
        /\ (res'.op = "result") =>
              /\ res'.isError
              /\ \E m \in ValidationMessages(res.query) : res'.text = ToolErrorPrefix \o m
              /\ calls' = calls
        /\ (res'.op # "result") =>
              /\ res'.op = "execute_query"
              /\ res'.query = res.query
              /\ res'.limitedQuery = AddLimitToQuery(res.query, QueryLimit)
              /\ Len(calls') = Len(calls) + 1
    ]_vars

\* C16's case: a query that starts with SELECT and names a table Updates was
\* answered with the error for the keyword 'update' inside the identifier, and
\* no acquisition was made.
C16_Witness ==
  /\ res.op = "result" /\ res.isError
  /\ res.text = <<"E","r","r","o","r"," ","e","x","e","c","u","t","i","n","g"," ","q","u","e","r","y",":"," ","Q","u","e","r","y"," ","c","o","n","t","a","i","n","s"," ","b","l","o","c","k","e","d"," ","k","e","y","w","o","r","d",":"," ","u","p","d","a","t","e">>
  /\ ~Truthy(defaultConnectionString)
  /\ calls = <<>>

-----------------------------------------------------------------------------
(* Claims about the tool from end to end, checked under SpecTool *)

\* C22: no call starts more than one handshake; a getConnection promise that has
\* settled never changes again and holds a session when resolved and an error
\* when rejected; an executeQuery call hands its SQL text to the driver once and
\* its promise, once settled, never changes again.
C22_NoRetry ==
  [][ /\ Len(sessions') <= Len(calls')
      /\ \A s \in 1..Len(sessions') :
           Cardinality({c \in 1..Len(calls') : calls'[c].opened = s}) = 1
      /\ \A c \in CallIds : calls[c].status # "pending" => calls'[c] = calls[c]
      /\ \A c \in 1..Len(calls') :
           /\ calls'[c].status = "resolved" => calls'[c].value.t = "connection"
           /\ calls'[c].status = "rejected" => calls'[c].value.t = "error"
           /\ calls'[c].status = "pending" => calls'[c].value = Undefined
      /\ request'.status # "none" => Len(request'.sent) = 1
      /\ request.status # "none" => request'.sent = request.sent
      /\ request.status \in {"resolved", "rejected"} => request' = request
    ]_vars

\* C22's case: the call resolved with its session, the query was handed to the
\* driver, then the session reported an error (a second settlement, without
\* effect) and the request failed; the tool answered with the error.
C22_Witness ==
  /\ Len(calls) = 1 /\ Len(sessions) = 1
  /\ calls[1].status = "resolved" /\ calls[1].value = Conn(1)
  /\ sessions[1].fault = "error"
  /\ request.status = "rejected" /\ Len(request.sent) = 1
  /\ res.op = "result" /\ res.isError

\* C27: the step that handles a query the validation rejects resolves no
\* connection string, opens no session, leaves the cache alone, executes
\* nothing, and answers with an error result carrying the validation message;
\* after that answer nothing more happens for the call.
C27_RejectedQueryTouchesNothing ==
  [][ /\ (res.op = "call" /\ Forbidden(res.query)) =>
           /\ res'.op = "result" /\ res'.isError
           /\ \E m \in ValidationMessages(res.query) : res'.text = ToolErrorPrefix \o m
           /\ calls' = <<>> /\ sessions' = <<>> /\ connections' = <<>>
           /\ request' = NoRequest
      /\ (res.op = "result" /\ calls = <<>>) => vars' = vars
    ]_vars

\* C27's case: with a default connection configured, a SELECT naming the table
\* Updates was answered with the blocked-keyword error and no call, session or
\* request exists.
C27_Witness ==
  /\ res.op = "result" /\ res.isError
  /\ res.text = <<"E","r","r","o","r"," ","e","x","e","c","u","t","i","n","g"," ","q","u","e","r","y",":"," ","Q","u","e","r","y"," ","c","o","n","t","a","i","n","s"," ","b","l","o","c","k","e","d"," ","k","e","y","w","o","r","d",":"," ","u","p","d","a","t","e">>
  /\ Truthy(defaultConnectionString)
  /\ calls = <<>> /\ sessions = <<>> /\ connections = <<>> /\ request = NoRequest

-----------------------------------------------------------------------------
(* Acquisition under a driver that eventually answers every handshake *)

\* Most getConnection calls in one run of the fair model.
MaxLiveCalls == 2

\* a getConnection call of the fair model
GetConnectionFair(connectionString, connectionName) ==
  /\ Len(calls) < MaxLiveCalls
  /\ Acquire(connectionString, connectionName)
  /\ UNCHANGED ConfigVars

\* the driver delivers the outcome of the handshake of session s: 'connect'
\* without or with an error, or 'error' before the login
DriverOutcome(s) ==
  /\ s <= Len(sessions)
  /\ sessions[s].state = "Connecting"
  /\ (ConnectSuccess(s) \/ ConnectFailure(s) \/ SessionError(s))

NextFair ==
  \/ \E cs \in CallExplicitInputs, name \in CallAliasInputs : GetConnectionFair(cs, name)
  \/ \E s \in 1..Len(sessions) : ConnectSuccess(s)
  \/ \E s \in 1..Len(sessions) : ConnectFailure(s)
  \/ \E s \in 1..Len(sessions) : SessionError(s)
  \/ \E s \in 1..Len(sessions) : SessionEnd(s)
  \/ CloseAllConnections

\* the driver eventually delivers an outcome for every session it was asked to open
SpecFair ==
  /\ Init
  /\ [][NextFair]_vars
  /\ \A s \in 1..MaxLiveCalls : WF_vars(DriverOutcome(s))

\* C23: a pending getConnection call settles only in a step in which the driver
\* delivers the outcome of the handshake of the session the call opened (no
\* timer and no other event settles it), and when the driver eventually answers
\* every handshake every call eventually resolves or rejects.
C23_SettlesOnDriverOutcomeOnly ==
  /\ [][ \A c \in CallIds :
           (calls[c].status = "pending" /\ calls'[c].status # "pending") =>
             /\ calls[c].opened # 0
             /\ sessions[calls[c].opened].state = "Connecting"
             /\ sessions'[calls[c].opened].state \in {"LoggedIn", "Final"}
       ]_vars
  /\ \A c \in 1..MaxLiveCalls :
       (Len(calls) >= c /\ calls[c].status = "pending")
         ~> (Len(calls) >= c /\ calls[c].status # "pending")

\* C23's case: two calls waited for their handshakes; the driver failed one and
\* completed the other, and each call settled with its own outcome.
C23_Witness ==
  /\ Len(calls) = 2 /\ calls[1].opened = 1 /\ calls[2].opened = 2
  /\ calls[1].status = "rejected" /\ calls[1].value = LoginError
  /\ calls[2].status = "resolved" /\ calls[2].value = Conn(2)

-----------------------------------------------------------------------------
(* Claim about the letter case of aliases, checked under SpecLoad *)

\* C24 as stated: whatever source supplied them, all keys of the
\* named-connections map are lowercase.
C24_AllKeysLowercase ==
  \A i \in 1..Len(namedConnections) :
    namedConnections[i].k = ToLowerCase(namedConnections[i].k)

-----------------------------------------------------------------------------
(* The translation model with synonyms, letter case, unrecognized keys and
   values holding '=', '\' and ',' *)

\* pairs of the model: recognized fields under either of their keys, in several
\* letter cases, with white space around key and value, with values that hold
\* '\', ',' and '=', and a key the translation does not know
ValuePairs ==
  { <<"S","e","r","v","e","r","=","h","\\","i",",","1","4","3","3">>, <<"D","A","T","A"," ","S","O","U","R","C","E","="," ","S"," ">>, <<"i","n","i","t","i","a","l"," ","c","a","t","a","l","o","g","=","E">>,
    <<"U","s","e","r"," ","I","d","=","b","o","b">>, <<"U","I","D","=","a","l">>, <<"P","a","s","s","w","o","r","d","=","a","=","b">>, <<"p","w","d","=","p","w">>, <<"T","i","m","e","o","u","t","=","5">> }

ValuePairLists == UNION { [1..n -> ValuePairs] : n \in 0..MaxPairs }

InitValues ==
  /\ Constructed(<<>>)
  /\ \E pairs \in ValuePairLists, term \in Terminators :
       res = [op |-> "call", fn |-> "parseConnectionString", pairs |-> pairs,
              connectionString |-> Join(pairs, <<";">>) \o term,
              envCredentials |-> EmptyObject]

NextValues == Parse

SpecValues == InitValues /\ [][NextValues]_vars

-----------------------------------------------------------------------------
(* Claims about keys and values, checked under SpecValues *)

\* position of the first '=' of a pair
FirstEquals(pair) == CHOOSE i \in 1..Len(pair) : pair[i] = "=" /\ \A j \in 1..(i - 1) : pair[j] # "="

\* the key text and the value text of a pair: what stands before its first '='
\* and everything after it, white space around them removed
KeyText(pair) == Trim(SubSeq(pair, 1, FirstEquals(pair) - 1))

ValueText(pair) == Trim(SubSeq(pair, FirstEquals(pair) + 1, Len(pair)))

\* the other key of a recognized field, the key itself when it has none
SynonymOf(key) ==
  LET k == ToLowerCase(key)
  IN CASE k = <<"s","e","r","v","e","r">> -> <<"D","a","t","a"," ","S","o","u","r","c","e">>
       [] k = <<"d","a","t","a"," ","s","o","u","r","c","e">> -> <<"S","e","r","v","e","r">>
       [] k = <<"d","a","t","a","b","a","s","e">> -> <<"I","n","i","t","i","a","l"," ","C","a","t","a","l","o","g">>
       [] k = <<"i","n","i","t","i","a","l"," ","c","a","t","a","l","o","g">> -> <<"D","a","t","a","b","a","s","e">>
       [] k = <<"u","s","e","r"," ","i","d">> -> <<"U","i","d">>
       [] k = <<"u","i","d">> -> <<"U","s","e","r"," ","I","d">>
       [] k = <<"p","a","s","s","w","o","r","d">> -> <<"P","w","d">>
       [] k = <<"p","w","d">> -> <<"P","a","s","s","w","o","r","d">>
       [] OTHER -> key

\* the connection string made of the pairs
StringOf(pairs) == Join(pairs, <<";">>)

\* the pair with its key replaced
WithKey(pair, key) == key \o SubSeq(pair, FirstEquals(pair), Len(pair))

\* the config the translation gives for the pairs, under the credentials of the call
ConfigOf(pairs) == ParseConnectionString(StringOf(pairs), res.envCredentials)

\* C25: replacing every key by its synonym, or lowercasing every key, gives the
\* same config, and so does inserting a pair with an unrecognized key at any place.
C25_KeysCaseInsensitiveSynonymsEqual ==
  Parsed =>
    /\ ConfigOf([i \in 1..Len(res.pairs) |->
                   WithKey(res.pairs[i], SynonymOf(KeyText(res.pairs[i])))]) = res.out
    /\ ConfigOf([i \in 1..Len(res.pairs) |->
                   WithKey(res.pairs[i], ToLowerCase(KeyText(res.pairs[i])))]) = res.out
    /\ \A n \in 0..Len(res.pairs) :
         ConfigOf(SubSeq(res.pairs, 1, n) \o << <<"C","o","n","n","e","c","t"," ","T","i","m","e","o","u","t","=","3","0">> >>
                    \o SubSeq(res.pairs, n + 1, Len(res.pairs))) = res.out

\* C25's case: a string naming the server as DATA SOURCE, the user as UID and an
\* unknown key has been translated: server and user are set and nothing else.
C25_Witness ==
  /\ Parsed
  /\ res.pairs = << <<"D","A","T","A"," ","S","O","U","R","C","E","="," ","S"," ">>, <<"T","i","m","e","o","u","t","=","5">>, <<"U","I","D","=","a","l">> >>
  /\ res.out.server = <<"S">>
  /\ res.out.authentication.options = <<[k |-> <<"u","s","e","r","N","a","m","e">>, v |-> Str(<<"a","l">>)]>>
  /\ res.out.options.database = Undefined

\* the fields of the config and the keys that set them
FieldKeys(field) ==
  CASE field = "server" -> { <<"s","e","r","v","e","r">>, <<"d","a","t","a"," ","s","o","u","r","c","e">> }
    [] field = "database" -> { <<"d","a","t","a","b","a","s","e">>, <<"i","n","i","t","i","a","l"," ","c","a","t","a","l","o","g">> }
    [] field = "user" -> { <<"u","s","e","r"," ","i","d">>, <<"u","i","d">> }
    [] field = "password" -> { <<"p","a","s","s","w","o","r","d">>, <<"p","w","d">> }

\* the value the config holds for a field
FieldValue(config, field) ==
  CASE field = "server" -> Str(config.server)
    [] field = "database" -> config.options.database
    [] field = "user" -> ObjGet(config.authentication.options, <<"u","s","e","r","N","a","m","e">>)
    [] field = "password" -> ObjGet(config.authentication.options, <<"p","a","s","s","w","o","r","d">>)

\* C26 as stated: for each recognized field, the config holds the value text of
\* the last pair whose key names the field: everything after the pair's first
\* '=', white space around it removed, kept verbatim.
C26_ValueIsTextAfterFirstEquals ==
  Parsed =>
    \A field \in {"server", "database", "user", "password"} :
      \A i \in 1..Len(res.pairs) :
        ( /\ ToLowerCase(KeyText(res.pairs[i])) \in FieldKeys(field)
          /\ \A j \in (i + 1)..Len(res.pairs) :
               ToLowerCase(KeyText(res.pairs[j])) \notin FieldKeys(field) )
          => FieldValue(res.out, field) = Str(ValueText(res.pairs[i]))

-----------------------------------------------------------------------------
(* Claims about errors of replaced sessions, shutdown and failed resolution,
   checked under Spec *)

\* in this step session s reports an asynchronous error
ReportsError(s) == sessions[s].fault = "none" /\ sessions'[s].fault = "error"

\* C28 as stated: when a session reports an error while the entry under its key
\* is another session that is logged in, that entry stays in the cache.
C28_ErrorEvictsOnlyItsSession ==
  [][ \A s \in SessionIds :
        ( /\ ReportsError(s)
          /\ sessions[s].key \in DOMAIN connections
          /\ connections[sessions[s].key] # s
          /\ sessions[connections[sessions[s].key]].state = "LoggedIn" )
          => /\ sessions[s].key \in DOMAIN connections'
             /\ connections'[sessions[s].key] = connections[sessions[s].key]
    ]_vars

\* C29 as stated: a closeAllConnections step leaves no session that ever logged
\* in open, whether or not it is still the entry of its key.
C29_CloseAllClosesEveryLoggedInSession ==
  [][ CloseAllConnections =>
        \A s \in SessionIds : sessions[s].login => sessions'[s].state = "Final" ]_vars

\* resolution of the arguments fails: no explicit string, and either an alias
\* that is not a named connection or no alias and no default connection string
ResolutionFails(connectionString, connectionName) ==
  /\ ~Truthy(connectionString)
  /\ IF Truthy(connectionName)
       THEN ~HasOwn(namedConnections, connectionName.v)
       ELSE ~Truthy(defaultConnectionString)

\* the error resolution fails with
ResolutionError(connectionName) ==
  IF Truthy(connectionName)
    THEN Error(NotFoundMessage(namedConnections, connectionName.v))
    ELSE Error(NoConnectionMessage)

\* C30: a getConnection call whose resolution fails is rejected with the
\* resolution error, opens no session, and leaves the cache, the named
\* connections, the default connection string and the Windows credentials as
\* they were.
C30_FailedResolutionChangesNothing ==
  [][ \A cs \in CallExplicitInputs, name \in CallAliasInputs :
        (GetConnection(cs, name) /\ ResolutionFails(cs, name)) =>
          /\ Len(calls') = Len(calls) + 1
          /\ calls'[Len(calls')].status = "rejected"
          /\ calls'[Len(calls')].value = ResolutionError(name)
          /\ calls'[Len(calls')].opened = 0
          /\ sessions' = sessions
          /\ connections' = connections
          /\ namedConnections' = namedConnections
          /\ defaultConnectionString' = defaultConnectionString
          /\ windowsCredentials' = windowsCredentials
    ]_vars

\* C30's case: with a default and a named connection configured and a session
\* logged in and cached, a call for an unknown alias was rejected with the
\* not-found error; the session is still the only one and still cached.
C30_Witness ==
  /\ Len(calls) = 2 /\ Len(sessions) = 1
  /\ Truthy(defaultConnectionString)
  /\ calls[1].status = "resolved" /\ calls[1].value = Conn(1)
  /\ calls[2].status = "rejected"
  /\ calls[2].value = Error(NotFoundMessage(namedConnections, <<"n","o","p","e">>))
  /\ calls[2].found = 0 /\ calls[2].opened = 0
  /\ sessions[1].state = "LoggedIn"
  /\ connections[sessions[1].key] = 1
====
